---------------------------- MODULE Spec2Model ----------------------------
(***************************************************************************)
(* A model of the Kaspa watch-only wallet SDK (src/src/index.js): the      *)
(* extended-key format detector, the Kaspium kpub -> xpub transcoder, the  *)
(* 5-bit repacker, the 40-bit polymod checksum and the address encoder.    *)
(*                                                                         *)
(* JavaScript values are modelled as follows.                              *)
(*   - a Uint8Array / array of numbers: a sequence of integers;            *)
(*   - a string: a sequence of one-character strings;                      *)
(*   - an int32 (the operand type of & | ^ << >>): an integer in           *)
(*     MinInt32..MaxInt32, with the wrap-around of ToInt32;                *)
(*   - a thrown Error / a null result: a record with ok = FALSE.           *)
(***************************************************************************)
EXTENDS Integers, Sequences, FiniteSets, TLC

VARIABLES op,      \* the function under call
          input,   \* its arguments (a record)
          pc,      \* "call" before the body ran, "done" after
          ret      \* what the call returned or threw

vars == <<op, input, pc, ret>>

-----------------------------------------------------------------------------
(* Bounds of the model (not program constants). *)

MaxLen == 5       \* longest symbol sequence handed to convertBits directly

-----------------------------------------------------------------------------
(* const x = v; F(x): v is evaluated once, to a complete value, before F    *)
(* uses it.                                                                 *)

With(v, F(_)) == CHOOSE r \in {F(x) : x \in {y \in {v} : y = y}} : TRUE

-----------------------------------------------------------------------------
(* JavaScript int32 arithmetic. *)

MaxInt32 == 2147483647
MinInt32 == -MaxInt32 - 1

Pow2(n) == IF n <= 0 THEN 1 ELSE 2 ^ n

\* The bitwise operators on 4-bit operands, tabulated at index 16 * a + b.
Bit(a, k) == (a \div Pow2(k)) % 2
NibAnd == [n \in 0..255 |-> LET a == n \div 16  b == n % 16 IN
              Bit(a, 0) * Bit(b, 0) + 2 * (Bit(a, 1) * Bit(b, 1))
              + 4 * (Bit(a, 2) * Bit(b, 2)) + 8 * (Bit(a, 3) * Bit(b, 3))]
NibOr == [n \in 0..255 |-> LET a == n \div 16  b == n % 16 IN
              ((Bit(a, 0) + Bit(b, 0) + 1) \div 2) + 2 * ((Bit(a, 1) + Bit(b, 1) + 1) \div 2)
              + 4 * ((Bit(a, 2) + Bit(b, 2) + 1) \div 2) + 8 * ((Bit(a, 3) + Bit(b, 3) + 1) \div 2)]
NibXor == [n \in 0..255 |-> LET a == n \div 16  b == n % 16 IN
              ((Bit(a, 0) + Bit(b, 0)) % 2) + 2 * ((Bit(a, 1) + Bit(b, 1)) % 2)
              + 4 * ((Bit(a, 2) + Bit(b, 2)) % 2) + 8 * ((Bit(a, 3) + Bit(b, 3)) % 2)]

\* The same on operands below 2^16, nibble by nibble.
Xor16(a, b) ==
    NibXor[16 * (a % 16) + (b % 16)]
    + 16 * NibXor[16 * ((a \div 16) % 16) + ((b \div 16) % 16)]
    + 256 * NibXor[16 * ((a \div 256) % 16) + ((b \div 256) % 16)]
    + 4096 * NibXor[16 * (a \div 4096) + (b \div 4096)]
And16(a, b) ==
    NibAnd[16 * (a % 16) + (b % 16)]
    + 16 * NibAnd[16 * ((a \div 16) % 16) + ((b \div 16) % 16)]
    + 256 * NibAnd[16 * ((a \div 256) % 16) + ((b \div 256) % 16)]
    + 4096 * NibAnd[16 * (a \div 4096) + (b \div 4096)]
Or16(a, b) ==
    NibOr[16 * (a % 16) + (b % 16)]
    + 16 * NibOr[16 * ((a \div 16) % 16) + ((b \div 16) % 16)]
    + 256 * NibOr[16 * ((a \div 256) % 16) + ((b \div 256) % 16)]
    + 4096 * NibOr[16 * (a \div 4096) + (b \div 4096)]

\* And on operands below 2^31, in two halves.
NatXor(a, b) == Xor16(a % 65536, b % 65536) + 65536 * Xor16(a \div 65536, b \div 65536)
NatAnd(a, b) == And16(a % 65536, b % 65536) + 65536 * And16(a \div 65536, b \div 65536)
NatOr(a, b)  == Or16(a % 65536, b % 65536) + 65536 * Or16(a \div 65536, b \div 65536)

\* The low 31 bits and the sign bit of an int32 (two's complement).
Low31(x) == IF x >= 0 THEN x ELSE (x + MaxInt32) + 1
Sign(x)  == IF x < 0 THEN 1 ELSE 0
MkInt32(sign, low31) == IF sign = 1 THEN (low31 - MaxInt32) - 1 ELSE low31

\* a & b, a | b, a ^ b on int32 operands.
And32(a, b) == MkInt32(IF Sign(a) = 1 /\ Sign(b) = 1 THEN 1 ELSE 0, NatAnd(Low31(a), Low31(b)))
Or32(a, b)  == MkInt32(IF Sign(a) = 1 \/ Sign(b) = 1 THEN 1 ELSE 0, NatOr(Low31(a), Low31(b)))
Xor32(a, b) == MkInt32(IF Sign(a) # Sign(b) THEN 1 ELSE 0, NatXor(Low31(a), Low31(b)))

\* a << n for 0 <= n <= 31: the low 32-n bits of a move up, bit 31-n becomes the sign.
Shl32(a, n) ==
    IF n = 0 THEN a
    ELSE LET keep == IF n = 1 THEN Low31(a)
                     ELSE Low31(a) % Pow2(32 - n)     \* bits 0..31-n of a
             sgn  == keep \div Pow2(31 - n)           \* bit 31-n of a
             low  == IF n = 31 THEN 0 ELSE (keep % Pow2(31 - n)) * Pow2(n)
         IN  MkInt32(sgn, low)

\* a >> n (sign-propagating) and a >>> n (zero-fill), 1 <= n <= 31 for >>>.
Sar32(a, n) == a \div Pow2(n)
Shr32(a, n) ==
    IF n = 0 THEN a   \* only used on non-negative operands when n = 0
    ELSE Low31(a) \div Pow2(n) + Sign(a) * Pow2(31 - n)

-----------------------------------------------------------------------------
(* JavaScript numbers above 32 bits.  polymod returns a double holding an  *)
(* integer below 2^40 and checksumToArray divides it by 32 repeatedly; a   *)
(* double is exact on these values (53-bit mantissa), so a number is the   *)
(* exact dyadic rational (hi * 2^20 + lo) / 32^e with 0 <= lo < 2^20.      *)

Limb == 1048576      \* 2^20, the limb base of the representation

Num(v) == [hi |-> v \div Limb, lo |-> v % Limb, e |-> 0]

\* a + b for two integers (e = 0).
NumAdd(a, b) ==
    LET lo == a.lo + b.lo
    IN  [hi |-> a.hi + b.hi + lo \div Limb, lo |-> lo % Limb, e |-> 0]

\* a * k for an integer a (e = 0) and a small non-negative int k (k < 2^11).
NumMul(a, k) ==
    LET lo == a.lo * k
    IN  [hi |-> a.hi * k + lo \div Limb, lo |-> lo % Limb, e |-> 0]

\* a < b for two integers (e = 0).
NumLess(a, b) == a.hi < b.hi \/ (a.hi = b.hi /\ a.lo < b.lo)

\* The int value of an integer (e = 0) that fits 32 bits.
NumInt(a) == a.hi * Limb + a.lo

\* a / 32: exact in floating point, the exponent drops by five bits.
NumDiv32(a) == [hi |-> a.hi, lo |-> a.lo, e |-> a.e + 1]

\* The integer part of a non-negative number: the mantissa shifted right 5*e bits.
RECURSIVE MantShift(_, _, _)
MantShift(hi, lo, e) ==
    IF e = 0 THEN [hi |-> hi, lo |-> lo]
    ELSE MantShift(hi \div 32, (lo \div 32) + (hi % 32) * (Limb \div 32), e - 1)

\* ToInt32(a): truncate toward zero, keep the low 32 bits, read them as signed.
NumToInt32(a) ==
    LET neg  == a.hi < 0
        \* |mantissa| as two limbs
        mlo  == IF neg /\ a.lo # 0 THEN Limb - a.lo ELSE a.lo
        mhi  == IF neg THEN (IF a.lo # 0 THEN -a.hi - 1 ELSE -a.hi) ELSE a.hi
        t    == MantShift(mhi, mlo, a.e)
        top  == t.hi % 4096                        \* bits 20..31
        sgn  == top \div 2048
        mag  == MkInt32(sgn, (top % 2048) * Limb + t.lo)
    IN  IF ~neg THEN mag
        ELSE IF mag = MinInt32 THEN MinInt32 ELSE -mag

-----------------------------------------------------------------------------
(* convertBits (index.js 447-476).  Failure (null) is [ok |-> FALSE].  The   *)
(* elements of data are JavaScript numbers (Num): the comparison value < 0  *)
(* is on the number itself, while >> and | first coerce it to 32 bits.      *)

Null == [ok |-> FALSE, val |-> <<>>]
Some(v) == [ok |-> TRUE, val |-> v]

\* new Uint8Array(ret): every element is stored modulo 256.
Uint8Array(s) == With(s, LAMBDA a : [k \in 1..Len(a) |-> a[k] % 256])

\* The elements of a typed array read back as numbers.
Numbers(s) == With(s, LAMBDA a : [k \in 1..Len(a) |-> Num(a[k])])

\* A for loop over data[lo..hi]: Step(state, element) applied left to right.  The
\* range is split in halves, and the state after the left half is computed before
\* the right half starts, so that the evaluation depth grows with log(hi - lo).
RECURSIVE ForEach(_, _, _, _, _)
ForEach(Step(_, _), st, data, lo, hi) ==
    IF lo > hi THEN st
    ELSE IF lo = hi THEN Step(st, data[lo])
    ELSE LET mid == (lo + hi) \div 2
             Right(left) == ForEach(Step, left, data, mid + 1, hi)
         IN  With(ForEach(Step, st, data, lo, mid), Right)

\* A faulty variant of Drain: the symbol is read before bits is lowered.
RECURSIVE DrainStale(_, _, _, _, _)
DrainStale(acc, bits, out, toBits, maxv) ==
    IF bits >= toBits
    THEN DrainStale(acc, bits - toBits, Append(out, And32(Sar32(acc, bits), maxv)),
                    toBits, maxv)
    ELSE [bits |-> bits, out |-> out]

\* The inner while loop: emit one toBits-wide symbol per toBits buffered bits.
RECURSIVE Drain(_, _, _, _, _)
Drain(acc, bits, out, toBits, maxv) ==
    IF bits >= toBits
    THEN Drain(acc, bits - toBits, Append(out, And32(Sar32(acc, bits - toBits), maxv)),
               toBits, maxv)
    ELSE [bits |-> bits, out |-> out]

\* One iteration of the for loop on the locals st = [ok, acc, bits, out]; ok = FALSE
\* once the loop has returned null.
ConvertStep(st, value, fromBits, toBits) ==
    LET maxv   == Shl32(1, toBits) - 1
        maxAcc == Shl32(1, fromBits + toBits - 1) - 1
    IN  IF ~st.ok THEN st
        ELSE IF value.hi < 0 \/ Sar32(NumToInt32(value), fromBits) # 0
             THEN [st EXCEPT !.ok = FALSE]
             ELSE LET Emit(acc1) ==
                          LET Store(d) == [ok |-> TRUE, acc |-> acc1, bits |-> d.bits,
                                           out |-> d.out]
                          IN  With(Drain(acc1, st.bits + fromBits, st.out, toBits, maxv),
                                   Store)
                  IN  With(And32(Or32(Shl32(st.acc, fromBits), NumToInt32(value)),
                                 maxAcc), Emit)

\* The for loop of convertBits on data: the locals when it ends.
ConvertLoop(data, fromBits, toBits) ==
    LET Step(st, value) == ConvertStep(st, value, fromBits, toBits)
    IN  ForEach(Step, [ok |-> TRUE, acc |-> 0, bits |-> 0, out |-> <<>>],
                data, 1, Len(data))

\* A faulty variant of ConvertFinish: the leftover bits are emitted whatever pad is.
ConvertFinishLenient(l, fromBits, toBits, pad) ==
    LET maxv == Shl32(1, toBits) - 1
        tail == And32(Shl32(l.acc, toBits - l.bits), maxv)
    IN  IF ~l.ok THEN Null
        ELSE Some(Uint8Array(IF l.bits > 0 THEN Append(l.out, tail) ELSE l.out))

\* The statements after the for loop, on the locals l it left.
ConvertFinish(l, fromBits, toBits, pad) ==
    LET maxv == Shl32(1, toBits) - 1
        tail == And32(Shl32(l.acc, toBits - l.bits), maxv)
    IN  IF ~l.ok THEN Null
        ELSE IF pad
             THEN Some(Uint8Array(IF l.bits > 0 THEN Append(l.out, tail) ELSE l.out))
             ELSE IF l.bits >= fromBits \/ tail # 0
                  THEN Null
                  ELSE Some(Uint8Array(l.out))

convertBits(data, fromBits, toBits, pad) ==
    LET Finish(l) == ConvertFinish(l, fromBits, toBits, pad)
        Loop(d)   == With(ConvertLoop(d, fromBits, toBits), Finish)
    IN  With(data, Loop)

-----------------------------------------------------------------------------
(* Strings are sequences of one-character strings. *)

Lower == <<"a", "b", "c", "d", "e", "f", "g", "h", "i", "j", "k", "l", "m",
           "n", "o", "p", "q", "r", "s", "t", "u", "v", "w", "x", "y", "z">>
Upper == <<"A", "B", "C", "D", "E", "F", "G", "H", "I", "J", "K", "L", "M",
           "N", "O", "P", "Q", "R", "S", "T", "U", "V", "W", "X", "Y", "Z">>
Digit == <<"0", "1", "2", "3", "4", "5", "6", "7", "8", "9">>

IndexOf(seq, c) == IF \E k \in 1..Len(seq) : seq[k] = c
                   THEN CHOOSE k \in 1..Len(seq) : seq[k] = c
                   ELSE 0

\* String.prototype.charCodeAt for the ASCII letters, digits and ':'.
CharCode(c) ==
    IF IndexOf(Lower, c) > 0 THEN 96 + IndexOf(Lower, c)
    ELSE IF IndexOf(Upper, c) > 0 THEN 64 + IndexOf(Upper, c)
    ELSE IF IndexOf(Digit, c) > 0 THEN 47 + IndexOf(Digit, c)
    ELSE 58

\* String.prototype.startsWith.
StartsWith(s, p) == Len(s) >= Len(p) /\ SubSeq(s, 1, Len(p)) = p

\* Buffer.from(bytes).toString('hex') and Buffer.from(hex, 'hex'): a hex string is
\* modelled as its sequence of hex digits (0..15), two per byte.
ToHex(bytes) ==
    With(bytes, LAMBDA b : [k \in 1..2 * Len(b) |->
                              IF k % 2 = 1 THEN (b[(k + 1) \div 2] % 256) \div 16
                              ELSE (b[k \div 2] % 256) % 16])
FromHex(hex) ==
    With(hex, LAMBDA h : [k \in 1..Len(h) \div 2 |-> h[2 * k - 1] * 16 + h[2 * k]])

-----------------------------------------------------------------------------
(* The address checksum (index.js 402-445). *)

\* A faulty variant of prefixToArray: the character codes are not masked.
prefixToArrayRaw(prefix) == [k \in 1..Len(prefix) |-> CharCode(prefix[k])]

\* prefix.charCodeAt(i) & 31 for every character of the prefix.
prefixToArray(prefix) ==
    With(prefix, LAMBDA s : [k \in 1..Len(s) |-> And32(CharCode(s[k]), 31)])

\* The loop body of checksumToArray run 8 times, then result.reverse().
RECURSIVE ChecksumDigits(_, _, _)
ChecksumDigits(checksum, k, result) ==
    IF k = 8 THEN result
    ELSE LET Divide(pushed) ==
                 With(NumDiv32(checksum), LAMBDA c : ChecksumDigits(c, k + 1, pushed))
         IN  With(Append(result, And32(NumToInt32(checksum), 31)), Divide)

\* A faulty variant of Reverse: the digits stay least significant first.
KeepOrder(s) == s

Reverse(s) == With(s, LAMBDA a : [k \in 1..Len(a) |-> a[Len(a) + 1 - k]])

\* A faulty variant of checksumToArray: the loop starts at i = 1 (seven digits).
checksumToArraySeven(checksum) ==
    With(checksum, LAMBDA c : Reverse(ChecksumDigits(c, 1, <<>>)))

checksumToArray(checksum) ==
    With(checksum, LAMBDA c : Reverse(ChecksumDigits(c, 0, <<>>)))

\* ToInt32 of the 32-bit literal hi16:lo16, the value ^= sees.
Lit32(hi16, lo16) == MkInt32(hi16 \div 32768, (hi16 % 32768) * 65536 + lo16)

GENERATOR1 == <<152, 121, 243, 174, 30>>             \* 0x98 0x79 0xf3 0xae 0x1e
GENERATOR2 == <<Lit32(62140, 36449),                 \* 0xf2bc8e61
                Lit32(46957, 39394),                 \* 0xb76d99e2
                Lit32(15967, 46020),                 \* 0x3e5fb3c4
                Lit32(11947, 58024),                 \* 0x2eabe2a8
                Lit32(20291, 58480)>>                \* 0x4f43e470

\* The inner loop over the five generator terms, from term i (0-based) on.
RECURSIVE GenLoop(_, _, _, _)
GenLoop(c0, c1, C, i) ==
    IF i >= Len(GENERATOR1) THEN <<c0, c1>>
    ELSE IF And32(C, Shl32(1, i)) # 0
         THEN GenLoop(Xor32(c0, GENERATOR1[i + 1]), Xor32(c1, GENERATOR2[i + 1]), C, i + 1)
         ELSE GenLoop(c0, c1, C, i + 1)

\* A faulty variant of PolyStep: only the low four bits of the symbol are mixed in.
PolyStepLow4(c, d) ==
    LET C   == Shr32(c[1], 3)
        c0s == Or32(Shl32(And32(c[1], 7), 5), Shr32(c[2], 27))
        c1s == Xor32(Shl32(And32(c[2], 134217727), 5), And32(d, 15))
    IN  GenLoop(c0s, c1s, C, 0)

\* One iteration of the outer loop on symbol d, on the words c = <<c0, c1>>.
PolyStep(c, d) ==
    LET C   == Shr32(c[1], 3)
        c0s == Or32(Shl32(And32(c[1], 7), 5), Shr32(c[2], 27))
        c1s == Xor32(Shl32(And32(c[2], 134217727), 5), d)
    IN  GenLoop(c0s, c1s, C, 0)

\* A faulty variant of PolyFinish: a low word with its sign bit set is added as
\* the negative number it reads as.
PolyFinishSigned(c) ==
    NumAdd(NumMul(NumMul(Num(Shl32(1, 30)), c[1]), 4), Num(Xor32(c[2], 1)))

\* The statements after the loop, on the final words <<c0, c1>>.
PolyFinish(c) ==
    LET c1x == Xor32(c[2], 1)
        low == IF c1x < 0
               THEN NumAdd(Num(Xor32(c1x, Shl32(1, 31))), NumMul(Num(Shl32(1, 30)), 2))
               ELSE Num(c1x)
    IN  NumAdd(NumMul(NumMul(Num(Shl32(1, 30)), c[1]), 4), low)

polymod(data) ==
    With(data, LAMBDA d : With(ForEach(PolyStep, <<0, 1>>, d, 1, Len(d)), PolyFinish))

-----------------------------------------------------------------------------
(* The address encoder (index.js 478-513). *)

CHARSET == <<"q", "p", "z", "r", "y", "9", "x", "8", "g", "f", "2", "t", "v", "d", "w", "0",
             "s", "3", "j", "n", "5", "4", "k", "h", "c", "e", "6", "m", "u", "a", "7", "l">>

\* CHARSET[d] is undefined for d > 31 and '' + undefined is the text 'undefined'.
base32Encode(data) ==
    With(data, LAMBDA d : [k \in 1..Len(d) |-> IF d[k] < Len(CHARSET) THEN CHARSET[d[k] + 1]
                                              ELSE "undefined"])

KaspaLabel == <<"k", "a", "s", "p", "a", ":">>

\* A faulty variant of HasFlagByte below: only 02 is taken for a flag byte.
HasFlagByte02(pubKeyHex) == StartsWith(pubKeyHex, <<0, 2>>)

\* pubKeyHex.startsWith('02') || pubKeyHex.startsWith('03')
HasFlagByte(pubKeyHex) ==
    StartsWith(pubKeyHex, <<0, 2>>) \/ StartsWith(pubKeyHex, <<0, 3>>)

kaspaEncodePubKeyAddress(pubKey, prefix) ==
    LET eight0      == <<0, 0, 0, 0, 0, 0, 0, 0>>
        versionByte == 0
        Clean(pubKeyHex) ==
            IF HasFlagByte(pubKeyHex)
            THEN SubSeq(pubKeyHex, 3, Len(pubKeyHex))
            ELSE pubKeyHex
        Encode(payloadData) ==
            LET prefixData   == prefixToArray(prefix) \o <<0>>
                checksumData == Uint8Array(prefixData \o payloadData.val \o eight0)
                Finish(polymodData) ==
                    LET payload == Uint8Array(payloadData.val \o polymodData)
                    IN  [ok |-> TRUE, val |-> KaspaLabel \o base32Encode(payload)]
            IN  IF ~payloadData.ok THEN [ok |-> FALSE, val |-> <<>>]
                ELSE With(checksumToArray(polymod(checksumData)), Finish)
        Pack(pubKeyArray) ==
            With(convertBits(Numbers(Uint8Array(<<versionByte>> \o pubKeyArray)),
                             8, 5, TRUE), Encode)
    IN  With(FromHex(With(ToHex(pubKey), Clean)), Pack)

-----------------------------------------------------------------------------
(* SHA-256 (the sha256 of @noble/hashes handed to base58check, index.js    *)
(* 17 and 106), per FIPS 180-4.  A 32-bit word is the pair <<high 16 bits, *)
(* low 16 bits>>; a message and a digest are byte sequences.               *)

WXor(x, y) == <<Xor16(x[1], y[1]), Xor16(x[2], y[2])>>
WAnd(x, y) == <<And16(x[1], y[1]), And16(x[2], y[2])>>
WNot(x)    == <<65535 - x[1], 65535 - x[2]>>
WAdd(x, y) == LET lo == x[2] + y[2]
              IN  <<(x[1] + y[1] + lo \div 65536) % 65536, lo % 65536>>

Rotr(x, n) ==
    LET h == IF n >= 16 THEN x[2] ELSE x[1]
        l == IF n >= 16 THEN x[1] ELSE x[2]
        m == n % 16
    IN  IF m = 0 THEN <<h, l>>
        ELSE <<(h \div Pow2(m)) + (l % Pow2(m)) * Pow2(16 - m),
               (l \div Pow2(m)) + (h % Pow2(m)) * Pow2(16 - m)>>

WShr(x, n) ==
    IF n >= 16 THEN <<0, x[1] \div Pow2(n - 16)>>
    ELSE <<x[1] \div Pow2(n), (x[2] \div Pow2(n)) + (x[1] % Pow2(n)) * Pow2(16 - n)>>

ShaK == <<<<17034, 12184>>, <<28983, 17553>>, <<46528, 64463>>, <<59829, 56229>>,
             <<14678, 49755>>, <<23025, 4593>>, <<37439, 33444>>, <<43804, 24277>>,
             <<55303, 43672>>, <<4739, 23297>>, <<9265, 34238>>, <<21772, 32195>>,
             <<29374, 23924>>, <<32990, 45566>>, <<39900, 1703>>, <<49563, 61812>>,
             <<58523, 27073>>, <<61374, 18310>>, <<4033, 40390>>, <<9228, 41420>>,
             <<11753, 11375>>, <<19060, 33962>>, <<23728, 43484>>, <<30457, 35034>>,
             <<38974, 20818>>, <<43057, 50797>>, <<45059, 10184>>, <<48985, 32711>>,
             <<50912, 3059>>, <<54695, 37191>>, <<1738, 25425>>, <<5161, 10599>>,
             <<10167, 2693>>, <<11803, 8504>>, <<19756, 28156>>, <<21304, 3347>>,
             <<25866, 29524>>, <<30314, 2747>>, <<33218, 51502>>, <<37490, 11397>>,
             <<41663, 59553>>, <<43034, 26187>>, <<49739, 35696>>, <<51052, 20899>>,
             <<53650, 59417>>, <<54937, 1572>>, <<62478, 13701>>, <<4202, 41072>>,
             <<6564, 49430>>, <<7735, 27656>>, <<10056, 30540>>, <<13488, 48309>>,
             <<14620, 3251>>, <<20184, 43594>>, <<23452, 51791>>, <<26670, 28659>>,
             <<29839, 33518>>, <<30885, 25455>>, <<33992, 30740>>, <<36039, 520>>,
             <<37054, 65530>>, <<42064, 27883>>, <<48889, 41975>>, <<50801, 30962>>>>

ShaH0 == <<<<27145, 58983>>, <<47975, 44677>>, <<15470, 62322>>, <<42319, 62778>>,
             <<20750, 21119>>, <<39685, 26764>>, <<8067, 55723>>, <<23520, 52505>>>>

BigSigma0(x) == WXor(WXor(Rotr(x, 2), Rotr(x, 13)), Rotr(x, 22))
BigSigma1(x) == WXor(WXor(Rotr(x, 6), Rotr(x, 11)), Rotr(x, 25))
SmallSigma0(x) == WXor(WXor(Rotr(x, 7), Rotr(x, 18)), WShr(x, 3))
SmallSigma1(x) == WXor(WXor(Rotr(x, 17), Rotr(x, 19)), WShr(x, 10))
ShaCh(e, f, g)  == WXor(WAnd(e, f), WAnd(WNot(e), g))
ShaMaj(a, b, c) == WXor(WXor(WAnd(a, b), WAnd(a, c)), WAnd(b, c))

\* The message schedule: w extended by the word of index t (1-based, 17..64).
SchedStep(w, t) ==
    Append(w, WAdd(WAdd(SmallSigma1(w[t - 2]), w[t - 7]),
                   WAdd(SmallSigma0(w[t - 15]), w[t - 16])))

\* Round t on the working variables s = <<a, b, c, d, e, f, g, h>>; s[9] is the schedule.
RoundStep(s, t) ==
    LET t2 == WAdd(BigSigma0(s[1]), ShaMaj(s[1], s[2], s[3]))
        Rotate(t1) ==
            <<WAdd(t1, t2), s[1], s[2], s[3], WAdd(s[4], t1), s[5], s[6], s[7], s[9]>>
    IN  With(WAdd(WAdd(WAdd(s[8], BigSigma1(s[5])), WAdd(ShaCh(s[5], s[6], s[7]), ShaK[t])),
                  s[9][t]),
             Rotate)

Range(a, b) == [k \in 1..(b - a + 1) |-> a + k - 1]

\* One 64-byte block folded into the chaining value h (a sequence of 8 words).
ShaCompress(h, block) ==
    LET w16 == [k \in 1..16 |-> <<block[4 * k - 3] * 256 + block[4 * k - 2],
                                  block[4 * k - 1] * 256 + block[4 * k]>>]
        Rounds(w) == ForEach(RoundStep, h \o <<w>>, Range(1, 64), 1, 64)
        Sum(r)    == [k \in 1..8 |-> WAdd(h[k], r[k])]
    IN  With(With(ForEach(SchedStep, w16, Range(17, 64), 1, 48), Rounds), Sum)

Zeros(n) == [k \in 1..n |-> 0]

\* The padded message: 0x80, zeros up to 56 mod 64, the bit length on 8 bytes.
ShaPad(m) ==
    LET bits == Len(m) * 8
    IN  m \o <<128>> \o Zeros((119 - Len(m)) % 64) \o Zeros(4)
          \o <<(bits \div 16777216) % 256, (bits \div 65536) % 256,
               (bits \div 256) % 256, bits % 256>>

ShaBlockStep(st, k) == [h |-> ShaCompress(st.h, SubSeq(st.m, 64 * k - 63, 64 * k)), m |-> st.m]

sha256(m) ==
    LET Blocks(padded) ==
            ForEach(ShaBlockStep, [h |-> ShaH0, m |-> padded],
                    Range(1, Len(padded) \div 64), 1, Len(padded) \div 64).h
        Byte(half, k) == IF k % 2 = 1 THEN half \div 256 ELSE half % 256
        Bytes(h) ==
            [k \in 1..32 |-> Byte(h[(k - 1) \div 4 + 1][((k - 1) % 4) \div 2 + 1], k)]
    IN  With(With(ShaPad(m), Blocks), Bytes)

-----------------------------------------------------------------------------
(* Base58Check (the base58check of @scure/base, index.js 16, 106-114).     *)

B58Alphabet ==
    <<"1", "2", "3", "4", "5", "6", "7", "8", "9",
      "A", "B", "C", "D", "E", "F", "G", "H", "J", "K", "L", "M", "N", "P", "Q", "R",
      "S", "T", "U", "V", "W", "X", "Y", "Z",
      "a", "b", "c", "d", "e", "f", "g", "h", "i", "j", "k", "m", "n", "o", "p", "q",
      "r", "s", "t", "u", "v", "w", "x", "y", "z">>

\* n applications of Step to st, in halves like ForEach.
RECURSIVE Repeat(_, _, _)
Repeat(Step(_), st, n) ==
    IF n <= 0 THEN st
    ELSE IF n = 1 THEN Step(st)
    ELSE LET Right(left) == Repeat(Step, left, n - n \div 2)
         IN  With(Repeat(Step, st, n \div 2), Right)

\* convertRadix: one long division of the digit string by `to`.  The quotient
\* replaces the digits and the remainder is the next output digit (least
\* significant first); the loop ends with the pass whose quotient is zero.
DivStep(st, digit, from, to) ==
    LET digitBase == from * st.carry + digit
    IN  [carry |-> digitBase % to, q |-> Append(st.q, digitBase \div to)]

RadixPass(st, from, to) ==
    IF st.done THEN st
    ELSE LET Step(s, d) == DivStep(s, d, from, to)
             Next(pass) ==
                 [digits |-> pass.q, res |-> Append(st.res, pass.carry),
                  done |-> \A k \in 1..Len(pass.q) : pass.q[k] = 0]
         IN  With(ForEach(Step, [carry |-> 0, q |-> <<>>], st.digits, 1, Len(st.digits)),
                  Next)

LeadingZeros(data) ==
    LET n == Len(data) - 1
    IN  IF \A k \in 1..n : data[k] = 0 THEN n
        ELSE (CHOOSE k \in 1..n : data[k] # 0 /\ \A j \in 1..(k - 1) : data[j] = 0) - 1

convertRadix(data, from, to) ==
    IF Len(data) = 0 THEN <<>>
    ELSE LET Pass(st) == RadixPass(st, from, to)
             r == Repeat(Pass, [digits |-> data, res |-> <<>>, done |-> FALSE],
                         2 * Len(data))
         IN  Reverse(r.res \o Zeros(LeadingZeros(data)))

\* base58.encode / base58.decode; decode throws on a character outside the alphabet.
base58Encode(bytes) ==
    LET Letters(digits) == [k \in 1..Len(digits) |-> B58Alphabet[digits[k] + 1]]
    IN  With(convertRadix(bytes, 256, 58), Letters)

base58Decode(str) ==
    IF \E k \in 1..Len(str) : IndexOf(B58Alphabet, str[k]) = 0 THEN Null
    ELSE Some(convertRadix([k \in 1..Len(str) |-> IndexOf(B58Alphabet, str[k]) - 1], 58, 256))

\* The 4-byte checksum of base58check(sha256): sha256(sha256(data))[0..4].
b58Checksum(data) == SubSeq(Repeat(sha256, data, 2), 1, 4)

\* b58c.encode and b58c.decode (index.js 106); decode throws (ok = FALSE) on a
\* foreign character and on a checksum mismatch.
b58cEncode(buffer) == base58Encode(buffer \o b58Checksum(buffer))

b58cDecode(str) ==
    LET Split(raw, n) ==
            LET Check(payload) ==
                    IF SubSeq(raw.val, n - 3, n) # b58Checksum(payload) THEN Null
                    ELSE Some(payload)
            IN  IF ~raw.ok \/ n < 4 THEN Null
                ELSE With(SubSeq(raw.val, 1, n - 4), Check)
        Decoded(raw) == Split(raw, Len(raw.val))
    IN  With(base58Decode(str), Decoded)


-----------------------------------------------------------------------------
(* The extended keys of the model.  A JavaScript string is the sequence of  *)
(* its characters; the literals below are real Base58Check strings.         *)

\* the kpub of the test script (unnamed/part_000): depth 3, key 03..
KpubTest ==
    <<"k","p","u","b","2","H","h","T","4","3","o","H","c","j","L","U","W","b","V","d","i","q","f",
      "s","p","N","U","H","K","D","4","n","2","q","a","U","T","v","V","Z","2","3","F","D","t","W",
      "A","Y","p","3","J","c","B","7","a","h","s","W","M","K","T","M","q","o","c","v","h","m","i",
      "f","t","3","d","e","b","v","E","n","h","W","w","A","2","T","g","Y","4","i","c","X","d","Q",
      "C","P","R","C","W","3","8","b","3","g","x","U","U","b","T","T","6","D","B">>

\* kpub tag, depth 0, a second key (02..) and chain code
KpubRoot2 ==
    <<"k","p","u","b","2","C","2","C","K","M","t","B","3","F","5","r","4","Q","k","4","3","p","E",
      "4","5","9","T","Z","c","Q","L","d","Z","R","s","v","6","x","H","S","p","6","y","M","Z","j",
      "W","C","i","M","u","y","J","h","g","M","C","k","u","H","D","H","A","m","h","1","F","2","a",
      "8","i","v","H","X","7","G","Q","P","o","R","H","R","v","b","7","n","f","b","z","F","U","z",
      "t","o","j","6","i","Q","U","F","1","g","Q","x","E","s","A","d","o","x","E">>

\* the fields of KpubTest under the xpub tag 04 88 b2 1e
XpubTest ==
    <<"x","p","u","b","6","B","g","c","i","3","r","H","Q","u","r","E","i","9","o","3","j","9","7",
      "N","K","R","c","K","N","p","p","9","L","H","U","T","T","G","k","C","Q","m","y","r","S","a",
      "h","7","T","F","5","M","D","1","Z","T","L","G","E","y","h","q","L","q","b","p","Y","p","c",
      "M","H","i","d","M","k","d","k","i","x","7","Y","b","P","E","J","u","2","t","B","M","p","c",
      "c","T","n","H","W","x","x","S","J","P","i","D","9","X","B","G","e","S","W">>

\* xpub tag, the test key with depth 2, fingerprint 01020304, child number 5
XpubTestMeta ==
    <<"x","p","u","b","6","9","n","4","c","J","v","U","e","q","4","P","8","r","s","q","s","p","p",
      "t","r","P","q","A","Z","e","7","P","D","J","o","L","d","b","A","n","U","S","w","c","q","y",
      "t","S","w","u","H","Q","y","a","2","g","J","d","f","m","k","k","a","V","o","R","S","7","E",
      "B","Z","C","H","q","b","Q","V","H","B","k","U","z","z","e","v","T","u","F","k","B","G","d",
      "y","p","a","t","a","Y","p","w","p","b","T","v","A","q","u","J","D","g","7">>

\* the fields of KpubRoot2 under the xpub tag
XpubRoot2 ==
    <<"x","p","u","b","6","6","1","M","y","M","w","A","q","R","b","c","F","y","3","U","4","7","f",
      "Y","a","C","b","b","g","2","5","z","r","s","m","u","6","J","Y","6","C","q","h","z","7","p",
      "2","m","M","Z","g","i","L","b","f","6","f","W","n","w","T","k","f","o","f","u","6","5","T",
      "p","8","b","H","E","F","y","v","L","4","1","t","s","H","M","k","9","d","m","Z","5","g","D",
      "J","t","6","B","j","L","J","6","G","P","A","g","u","j","W","K","9","2","p">>

\* the fields of KpubTest under the tpub tag 04 35 87 cf
TpubTest ==
    <<"t","p","u","b","D","C","4","F","E","H","f","y","8","B","o","g","y","w","y","u","B","L","6",
      "T","X","L","w","g","h","w","u","o","K","f","y","W","z","u","L","V","m","L","2","z","n","V",
      "T","1","C","X","k","4","H","E","Q","Y","U","h","u","o","w","s","R","d","8","K","W","4","Q",
      "F","p","d","E","w","G","W","H","p","n","A","E","m","s","q","h","k","t","8","4","o","G","u",
      "g","4","X","b","C","V","c","f","t","M","J","c","u","Y","w","b","a","x","k">>

\* Kaspa private tag 03 8f 2e f4, key material 00 + a private key
KprvPriv ==
    <<"k","p","r","v","6","4","i","6","e","Y","G","P","n","M","n","B","J","7","R","A","c","p","8",
      "s","T","E","X","Y","m","B","E","H","d","N","r","d","6","h","Z","x","D","e","q","c","L","A",
      "d","Z","w","E","y","T","d","a","G","T","K","i","2","q","c","5","e","w","6","D","3","r","U",
      "k","H","n","2","D","r","B","c","Y","f","x","c","Z","k","Y","8","d","M","h","X","u","W","u",
      "C","2","i","m","u","S","T","U","2","W","6","c","Z","7","Y","Y","j","n","Z">>

\* private tag 04 88 ad e4, key material 00 + a private key
XprvPriv ==
    <<"x","p","r","v","9","x","h","G","J","Y","K","P","a","Y","H","w","V","f","i","a","d","7","a",
      "M","x","H","f","a","p","n","y","e","v","p","k","c","6","3","p","b","c","P","a","E","t","F",
      "A","8","a","S","k","C","f","U","F","C","n","T","v","V","r","Z","9","y","5","6","t","u","N",
      "R","h","T","1","v","z","u","8","U","v","Z","E","1","7","J","k","z","K","s","6","j","i","7",
      "c","7","5","r","v","N","H","K","H","C","r","M","E","2","j","D","s","b","i">>

\* Kaspa private tag 03 8f 2e f4 on the public fields of KpubTest
KprvPub ==
    <<"k","p","r","v","6","4","i","6","e","Y","G","P","n","M","n","B","J","7","R","A","c","p","8",
      "s","T","E","X","Y","m","B","E","H","d","N","r","d","6","h","Z","x","D","e","q","c","L","A",
      "d","Z","w","E","y","T","d","a","G","T","K","i","2","q","c","A","h","X","X","k","Z","B","J",
      "w","S","3","j","C","U","z","a","2","x","4","K","i","U","f","n","s","a","A","r","g","3","E",
      "g","P","6","p","e","i","K","Y","7","q","5","E","i","a","a","E","x","A","u">>

\* private tag 04 88 ad e4 on the public fields of KpubTest
XprvPub ==
    <<"x","p","r","v","9","x","h","G","J","Y","K","P","a","Y","H","w","V","f","i","a","d","7","a",
      "M","x","H","f","a","p","n","y","e","v","p","k","c","6","3","p","b","c","P","a","E","t","F",
      "A","8","a","S","k","C","f","U","F","C","n","T","v","V","r","e","C","Z","W","e","Q","E","C",
      "c","q","i","i","u","d","i","5","y","C","e","w","9","q","S","R","E","Y","L","R","W","E","T",
      "6","T","T","u","f","e","9","P","N","X","p","y","P","V","3","4","j","X","z">>

\* kpub tag, key material 04 + the test key's X (33 bytes)
KpubBad04 ==
    <<"k","p","u","b","2","H","h","T","4","3","o","H","c","j","L","U","W","b","V","d","i","q","f",
      "s","p","N","U","H","K","D","4","n","2","q","a","U","T","v","V","Z","2","3","F","D","t","W",
      "A","Y","p","3","J","c","B","7","a","h","s","W","M","K","T","P","n","Y","o","A","9","o","a",
      "6","Z","G","m","U","B","d","9","N","K","W","t","U","d","E","b","e","g","S","G","E","U","G",
      "z","2","V","J","k","B","p","V","3","L","x","r","y","F","Y","3","p","g","E">>

\* kpub tag, key material 00 + a private key
KpubKey00 ==
    <<"k","p","u","b","2","H","h","T","4","3","o","H","c","j","L","U","W","b","V","d","i","q","f",
      "s","p","N","U","H","K","D","4","n","2","q","a","U","T","v","V","Z","2","3","F","D","t","W",
      "A","Y","p","3","J","c","B","7","a","h","s","W","M","K","T","G","o","D","B","P","C","S","t",
      "U","j","m","v","f","y","7","H","J","R","R","E","1","J","L","2","H","r","F","H","m","7","4",
      "i","3","3","9","k","m","G","W","x","M","y","r","K","B","6","o","b","v","L">>

\* kpub tag, key material 02 + an X that is on no curve point
KpubOffCurve ==
    <<"k","p","u","b","2","H","h","T","4","3","o","H","c","j","L","U","W","b","V","d","i","q","f",
      "s","p","N","U","H","K","D","4","n","2","q","a","U","T","v","V","Z","2","3","F","D","t","W",
      "A","Y","p","3","J","c","B","7","a","h","s","W","M","K","T","K","u","4","S","h","F","j","s",
      "F","C","p","V","q","2","D","L","D","5","W","y","q","R","g","m","R","S","z","x","p","n","X",
      "Q","k","M","6","F","t","S","h","4","2","x","5","z","9","D","x","J","P","u">>

\* kpub tag, depth 0 with the test key's non-zero fingerprint
KpubDepth0Fp ==
    <<"k","p","u","b","2","C","4","3","U","h","F","5","e","9","n","W","m","1","K","T","i","R","9",
      "h","A","n","4","t","p","6","s","f","j","Z","q","Z","P","Z","p","T","x","y","j","Y","U","S",
      "U","R","D","P","o","J","c","t","q","Y","m","3","L","k","K","K","v","Q","P","a","e","v","q",
      "v","7","e","F","k","R","c","c","P","B","P","o","7","S","e","q","4","X","1","y","f","Q","d",
      "b","j","W","q","g","o","m","e","f","s","6","i","S","J","s","j","9","P","Z">>

\* xpub tag, key material 04 + the test key's X
XpubBad04 ==
    <<"x","p","u","b","6","B","g","c","i","3","r","H","Q","u","r","E","i","9","o","3","j","9","7",
      "N","K","R","c","K","N","p","p","9","L","H","U","T","T","G","k","C","Q","m","y","r","S","a",
      "h","7","T","F","5","M","D","1","Z","T","L","G","E","y","h","s","H","a","n","3","z","r","T",
      "m","x","w","m","B","L","L","f","J","a","7","V","u","z","1","E","1","e","b","q","4","f","V",
      "Q","6","r","P","m","7","e","L","J","3","i","b","e","5","K","B","a","7","F">>

\* the fields of KpubKey00 under the xpub tag
XpubKey00 ==
    <<"x","p","u","b","6","B","g","c","i","3","r","H","Q","u","r","E","i","9","o","3","j","9","7",
      "N","K","R","c","K","N","p","p","9","L","H","U","T","T","G","k","C","Q","m","y","r","S","a",
      "h","7","T","F","5","M","D","1","Z","T","L","G","E","y","h","k","J","F","A","H","3","V","n",
      "A","9","S","v","P","7","p","o","E","g","1","q","S","f","6","e","e","p","Q","r","b","J","H",
      "8","7","Q","E","m","h","6","N","D","4","j","a","z","6","7","Y","y","e","v">>

\* the fields of KpubOffCurve under the xpub tag
XpubOffCurve ==
    <<"x","p","u","b","6","B","g","c","i","3","r","H","Q","u","r","E","i","9","o","3","j","9","7",
      "N","K","R","c","K","N","p","p","9","L","H","U","T","T","G","k","C","Q","m","y","r","S","a",
      "h","7","T","F","5","M","D","1","Z","T","L","G","E","y","h","o","Q","6","R","b","6","n","k",
      "v","c","V","V","Y","A","v","r","9","L","7","b","G","n","T","P","n","R","A","X","e","y","j",
      "p","p","i","B","G","p","G","Y","J","j","h","p","f","1","n","Z","L","Y","5">>

\* the fields of KpubDepth0Fp under the xpub tag
XpubDepth0Fp ==
    <<"x","p","u","b","6","6","3","D","8","h","J","5","S","L","J","G","x","Z","c","s","i","i","b",
      "B","f","q","C","v","s","i","d","3","3","1","j","Y","N","v","5","7","M","i","U","B","2","W",
      "z","y","r","b","a","3","e","n","p","J","D","o","E","Q","Z","o","R","S","N","U","V","y","j",
      "b","X","K","F","T","a","L","8","K","R","z","Q","Y","o","R","T","R","V","B","Y","V","b","r",
      "1","o","s","v","h","j","b","V","v","Z","r","T","7","C","G","G","7","j","z">>

\* xpub tag, depth 0 with child number 1
XpubDepth0Idx ==
    <<"x","p","u","b","6","6","1","M","y","M","w","A","q","R","b","c","J","G","v","5","P","h","d",
      "k","H","o","s","W","P","H","D","K","y","S","J","9","Y","z","E","9","u","4","3","i","D","e",
      "M","3","f","o","9","d","M","1","Q","K","w","G","e","S","E","2","u","8","P","i","d","i","S",
      "T","A","Z","z","X","K","h","7","u","f","W","W","1","W","x","d","6","y","T","L","U","C","W",
      "6","g","t","s","G","x","v","x","V","R","3","X","3","2","w","x","n","k","Z">>

\* version bytes 03 8f 33 2f: the string still starts with kpub
KpubVersion2f ==
    <<"k","p","u","b","A","b","Q","8","n","x","J","d","v","j","T","r","B","a","S","x","W","T","o",
      "T","r","e","B","f","L","C","k","D","n","i","3","X","g","1","A","j","W","A","s","u","k","S",
      "R","x","m","j","E","E","F","y","6","3","W","C","e","h","n","D","k","w","9","4","G","h","9",
      "8","t","B","F","8","W","2","c","X","w","m","A","U","y","K","x","B","a","1","g","u","p","6",
      "j","L","x","C","X","D","4","m","i","Y","o","T","n","t","d","C","R","X","f">>

\* kpub tag, a payload of 77 bytes (the last byte of KpubTest dropped)
Short77 ==
    <<"A","v","u","F","4","1","c","S","q","i","s","M","z","2","t","Y","9","y","J","N","1","R","A",
      "i","R","K","u","r","T","n","K","y","s","i","N","B","J","R","o","o","D","v","X","Q","m","J",
      "2","i","C","7","Q","v","j","c","v","r","b","6","k","7","u","C","4","o","p","7","H","2","y",
      "Z","p","p","G","Z","5","j","s","h","i","M","N","n","Y","b","b","L","G","o","8","b","a","d",
      "4","w","U","E","U","s","n","D","h","V","5","s","8","7","J","9","M","h">>

\* kpub tag, a payload of 79 bytes (a byte appended to KpubTest)
Long79 ==
    <<"4","L","S","T","7","A","g","h","X","z","T","M","J","L","h","r","x","R","d","F","P","5","f",
      "p","b","J","5","m","R","1","N","F","f","m","7","Q","k","D","q","7","2","K","a","u","m","t",
      "K","j","9","Q","d","A","i","F","e","3","m","P","v","Y","g","T","L","z","Q","m","a","2","x",
      "N","v","c","J","c","k","y","7","y","r","h","q","8","2","q","S","m","W","7","Q","f","p","B",
      "f","P","F","w","o","m","A","Q","V","G","s","M","r","G","Z","R","3","R","7","j","A">>

\* private tag 04 88 ad e4, a payload of 77 bytes (the last byte of XprvPriv dropped)
Xprv77 ==
    <<"D","e","a","W","i","T","D","J","4","X","C","s","R","p","R","E","F","e","m","m","K","c","2",
      "D","T","7","w","x","h","H","J","p","Z","a","v","q","H","6","d","A","C","e","H","b","Q","q",
      "y","S","j","U","8","X","H","R","J","G","M","i","t","z","j","w","s","4","e","B","Q","6","4",
      "w","z","C","L","F","3","h","M","j","8","9","f","H","n","q","R","v","K","K","b","q","C","8",
      "P","T","J","Q","z","r","g","V","c","P","d","6","v","W","6","8","m","G">>

\* Kaspa private tag 03 8f 2e f4, a payload of 79 bytes (a byte appended to KprvPub)
Kprv79 ==
    <<"4","L","S","F","K","K","M","N","P","v","g","z","w","Z","C","i","Q","S","X","K","f","T","5",
      "3","j","g","n","h","q","B","z","9","e","P","Z","U","2","L","A","4","S","i","r","1","Y","w",
      "b","W","Q","N","Q","g","C","Y","R","q","D","B","a","7","7","Y","D","o","s","k","j","F","2",
      "W","B","F","Z","3","F","g","Z","6","o","c","1","f","c","5","8","D","U","D","Q","W","F","J",
      "s","N","p","Y","h","K","T","N","p","M","9","B","h","Y","6","b","p","e","f","z","p">>

\* KpubTest with its last character changed
KpubBadChecksum ==
    <<"k","p","u","b","2","H","h","T","4","3","o","H","c","j","L","U","W","b","V","d","i","q","f",
      "s","p","N","U","H","K","D","4","n","2","q","a","U","T","v","V","Z","2","3","F","D","t","W",
      "A","Y","p","3","J","c","B","7","a","h","s","W","M","K","T","M","q","o","c","v","h","m","i",
      "f","t","3","d","e","b","v","E","n","h","W","w","A","2","T","g","Y","4","i","c","X","d","Q",
      "C","P","R","C","W","3","8","b","3","g","x","U","U","b","T","T","6","D","C">>

\* KpubTest with the character 0, foreign to Base58, at position 11
KpubBadChar ==
    <<"k","p","u","b","2","H","h","T","4","3","0","H","c","j","L","U","W","b","V","d","i","q","f",
      "s","p","N","U","H","K","D","4","n","2","q","a","U","T","v","V","Z","2","3","F","D","t","W",
      "A","Y","p","3","J","c","B","7","a","h","s","W","M","K","T","M","q","o","c","v","h","m","i",
      "f","t","3","d","e","b","v","E","n","h","W","w","A","2","T","g","Y","4","i","c","X","d","Q",
      "C","P","R","C","W","3","8","b","3","g","x","U","U","b","T","T","6","D","B">>

\* Strings that are no extended key at all.
ShortStrings ==
    <<<<>>,
      <<"k","p","u">>,
      <<"k","p","u","b">>,
      <<"x","p","u","b">>,
      <<"t","p","u","b">>,
      <<"K","P","U","B","2","H","h","T">>,
      <<" ","k","p","u","b","2","H","h","T">>,
      <<"y","p","u","b","6","B","g","c","i">>,
      <<"z","p","u","b","k","p","u","b">>>>

KeyStrings ==
    <<KpubTest, KpubRoot2, XpubTest, XpubTestMeta, XpubRoot2,
      TpubTest, KprvPriv, XprvPriv, KprvPub, XprvPub,
      KpubBad04, KpubKey00, KpubOffCurve, KpubDepth0Fp, XpubBad04,
      XpubKey00, XpubOffCurve, XpubDepth0Fp, XpubDepth0Idx, KpubVersion2f,
      Short77, Long79, Xprv77, Kprv79, KpubBadChecksum,
      KpubBadChar>>
        \o ShortStrings

\* b58c.decode on the strings of the model, tabulated in the order of KeyStrings:
\* the payload, or Null where decode throws.  CodecTable states that the table
\* is what b58cDecode and b58cEncode compute.
DecodedKeys ==
    <<Some(<<3,143,51,46,3,4,85,124,203,128,0,0,0,118,228,134,186,113,136,53,147,181,78,249,11,176,7,
             242,54,153,118,169,147,128,86,75,212,197,154,51,163,247,168,181,59,3,43,189,51,208,254,
             163,44,230,156,101,33,167,74,56,130,215,21,171,35,188,193,70,196,33,197,88,140,30,242,84,
             85,178>>),
      Some(<<3,143,51,46,0,0,0,0,0,0,0,0,0,143,14,253,41,27,92,86,226,222,128,152,184,241,237,192,144,
             79,162,181,247,244,11,232,144,98,205,176,69,175,214,134,144,2,200,148,247,165,42,206,207,
             21,61,55,213,252,140,169,249,139,33,179,167,126,92,6,93,23,130,173,62,158,52,20,43,133>>),
      Some(<<4,136,178,30,3,4,85,124,203,128,0,0,0,118,228,134,186,113,136,53,147,181,78,249,11,176,7,
             242,54,153,118,169,147,128,86,75,212,197,154,51,163,247,168,181,59,3,43,189,51,208,254,
             163,44,230,156,101,33,167,74,56,130,215,21,171,35,188,193,70,196,33,197,88,140,30,242,84,
             85,178>>),
      Some(<<4,136,178,30,2,1,2,3,4,0,0,0,5,118,228,134,186,113,136,53,147,181,78,249,11,176,7,242,54,
             153,118,169,147,128,86,75,212,197,154,51,163,247,168,181,59,3,43,189,51,208,254,163,44,
             230,156,101,33,167,74,56,130,215,21,171,35,188,193,70,196,33,197,88,140,30,242,84,85,178>>),
      Some(<<4,136,178,30,0,0,0,0,0,0,0,0,0,143,14,253,41,27,92,86,226,222,128,152,184,241,237,192,
             144,79,162,181,247,244,11,232,144,98,205,176,69,175,214,134,144,2,200,148,247,165,42,206,
             207,21,61,55,213,252,140,169,249,139,33,179,167,126,92,6,93,23,130,173,62,158,52,20,43,
             133>>),
      Some(<<4,53,135,207,3,4,85,124,203,128,0,0,0,118,228,134,186,113,136,53,147,181,78,249,11,176,7,
             242,54,153,118,169,147,128,86,75,212,197,154,51,163,247,168,181,59,3,43,189,51,208,254,
             163,44,230,156,101,33,167,74,56,130,215,21,171,35,188,193,70,196,33,197,88,140,30,242,84,
             85,178>>),
      Some(<<3,143,46,244,3,4,85,124,203,128,0,0,0,118,228,134,186,113,136,53,147,181,78,249,11,176,7,
             242,54,153,118,169,147,128,86,75,212,197,154,51,163,247,168,181,59,0,147,94,122,101,103,
             211,111,110,173,179,220,210,22,9,108,166,56,241,114,110,93,42,251,11,108,208,151,243,167,
             115,54,70>>),
      Some(<<4,136,173,228,3,4,85,124,203,128,0,0,0,118,228,134,186,113,136,53,147,181,78,249,11,176,
             7,242,54,153,118,169,147,128,86,75,212,197,154,51,163,247,168,181,59,0,147,94,122,101,
             103,211,111,110,173,179,220,210,22,9,108,166,56,241,114,110,93,42,251,11,108,208,151,243,
             167,115,54,70>>),
      Some(<<3,143,46,244,3,4,85,124,203,128,0,0,0,118,228,134,186,113,136,53,147,181,78,249,11,176,7,
             242,54,153,118,169,147,128,86,75,212,197,154,51,163,247,168,181,59,3,43,189,51,208,254,
             163,44,230,156,101,33,167,74,56,130,215,21,171,35,188,193,70,196,33,197,88,140,30,242,84,
             85,178>>),
      Some(<<4,136,173,228,3,4,85,124,203,128,0,0,0,118,228,134,186,113,136,53,147,181,78,249,11,176,
             7,242,54,153,118,169,147,128,86,75,212,197,154,51,163,247,168,181,59,3,43,189,51,208,254,
             163,44,230,156,101,33,167,74,56,130,215,21,171,35,188,193,70,196,33,197,88,140,30,242,84,
             85,178>>),
      Some(<<3,143,51,46,3,4,85,124,203,128,0,0,0,118,228,134,186,113,136,53,147,181,78,249,11,176,7,
             242,54,153,118,169,147,128,86,75,212,197,154,51,163,247,168,181,59,4,43,189,51,208,254,
             163,44,230,156,101,33,167,74,56,130,215,21,171,35,188,193,70,196,33,197,88,140,30,242,84,
             85,178>>),
      Some(<<3,143,51,46,3,4,85,124,203,128,0,0,0,118,228,134,186,113,136,53,147,181,78,249,11,176,7,
             242,54,153,118,169,147,128,86,75,212,197,154,51,163,247,168,181,59,0,147,94,122,101,103,
             211,111,110,173,179,220,210,22,9,108,166,56,241,114,110,93,42,251,11,108,208,151,243,167,
             115,54,70>>),
      Some(<<3,143,51,46,3,4,85,124,203,128,0,0,0,118,228,134,186,113,136,53,147,181,78,249,11,176,7,
             242,54,153,118,169,147,128,86,75,212,197,154,51,163,247,168,181,59,2,43,189,51,208,254,
             163,44,230,156,101,33,167,74,56,130,215,21,171,35,188,193,70,196,33,197,88,140,30,242,84,
             85,179>>),
      Some(<<3,143,51,46,0,4,85,124,203,0,0,0,0,118,228,134,186,113,136,53,147,181,78,249,11,176,7,
             242,54,153,118,169,147,128,86,75,212,197,154,51,163,247,168,181,59,3,43,189,51,208,254,
             163,44,230,156,101,33,167,74,56,130,215,21,171,35,188,193,70,196,33,197,88,140,30,242,84,
             85,178>>),
      Some(<<4,136,178,30,3,4,85,124,203,128,0,0,0,118,228,134,186,113,136,53,147,181,78,249,11,176,7,
             242,54,153,118,169,147,128,86,75,212,197,154,51,163,247,168,181,59,4,43,189,51,208,254,
             163,44,230,156,101,33,167,74,56,130,215,21,171,35,188,193,70,196,33,197,88,140,30,242,84,
             85,178>>),
      Some(<<4,136,178,30,3,4,85,124,203,128,0,0,0,118,228,134,186,113,136,53,147,181,78,249,11,176,7,
             242,54,153,118,169,147,128,86,75,212,197,154,51,163,247,168,181,59,0,147,94,122,101,103,
             211,111,110,173,179,220,210,22,9,108,166,56,241,114,110,93,42,251,11,108,208,151,243,167,
             115,54,70>>),
      Some(<<4,136,178,30,3,4,85,124,203,128,0,0,0,118,228,134,186,113,136,53,147,181,78,249,11,176,7,
             242,54,153,118,169,147,128,86,75,212,197,154,51,163,247,168,181,59,2,43,189,51,208,254,
             163,44,230,156,101,33,167,74,56,130,215,21,171,35,188,193,70,196,33,197,88,140,30,242,84,
             85,179>>),
      Some(<<4,136,178,30,0,4,85,124,203,0,0,0,0,118,228,134,186,113,136,53,147,181,78,249,11,176,7,
             242,54,153,118,169,147,128,86,75,212,197,154,51,163,247,168,181,59,3,43,189,51,208,254,
             163,44,230,156,101,33,167,74,56,130,215,21,171,35,188,193,70,196,33,197,88,140,30,242,84,
             85,178>>),
      Some(<<4,136,178,30,0,0,0,0,0,0,0,0,1,118,228,134,186,113,136,53,147,181,78,249,11,176,7,242,54,
             153,118,169,147,128,86,75,212,197,154,51,163,247,168,181,59,3,43,189,51,208,254,163,44,
             230,156,101,33,167,74,56,130,215,21,171,35,188,193,70,196,33,197,88,140,30,242,84,85,178>>),
      Some(<<3,143,51,47,3,4,85,124,203,128,0,0,0,118,228,134,186,113,136,53,147,181,78,249,11,176,7,
             242,54,153,118,169,147,128,86,75,212,197,154,51,163,247,168,181,59,3,43,189,51,208,254,
             163,44,230,156,101,33,167,74,56,130,215,21,171,35,188,193,70,196,33,197,88,140,30,242,84,
             85,178>>),
      Some(<<3,143,51,46,3,4,85,124,203,128,0,0,0,118,228,134,186,113,136,53,147,181,78,249,11,176,7,
             242,54,153,118,169,147,128,86,75,212,197,154,51,163,247,168,181,59,3,43,189,51,208,254,
             163,44,230,156,101,33,167,74,56,130,215,21,171,35,188,193,70,196,33,197,88,140,30,242,84,
             85>>),
      Some(<<3,143,51,46,3,4,85,124,203,128,0,0,0,118,228,134,186,113,136,53,147,181,78,249,11,176,7,
             242,54,153,118,169,147,128,86,75,212,197,154,51,163,247,168,181,59,3,43,189,51,208,254,
             163,44,230,156,101,33,167,74,56,130,215,21,171,35,188,193,70,196,33,197,88,140,30,242,84,
             85,178,1>>),
      Some(<<4,136,173,228,3,4,85,124,203,128,0,0,0,118,228,134,186,113,136,53,147,181,78,249,11,176,
             7,242,54,153,118,169,147,128,86,75,212,197,154,51,163,247,168,181,59,0,147,94,122,101,
             103,211,111,110,173,179,220,210,22,9,108,166,56,241,114,110,93,42,251,11,108,208,151,243,
             167,115,54>>),
      Some(<<3,143,46,244,3,4,85,124,203,128,0,0,0,118,228,134,186,113,136,53,147,181,78,249,11,176,7,
             242,54,153,118,169,147,128,86,75,212,197,154,51,163,247,168,181,59,3,43,189,51,208,254,
             163,44,230,156,101,33,167,74,56,130,215,21,171,35,188,193,70,196,33,197,88,140,30,242,84,
             85,178,1>>),
      Null,
      Null,
      Null,
      Null,
      Null,
      Null,
      Null,
      Null,
      Null,
      Null,
      Null>>

\* base58checkDecode (index.js 108-110): b58c.decode, read from the table.
base58checkDecode(str) ==
    DecodedKeys[CHOOSE k \in 1..Len(KeyStrings) : KeyStrings[k] = str]

\* base58checkEncode (index.js 112-114): b58c.encode, read from the table.
base58checkEncode(buffer) ==
    KeyStrings[CHOOSE k \in 1..Len(KeyStrings) : DecodedKeys[k] = Some(buffer)]

-----------------------------------------------------------------------------
(* JavaScript values, results and thrown errors.                            *)

\* A value handed as an argument: a string, or a value of another type.
JsString(s) == [type |-> "string", str |-> s]
JsNull      == [type |-> "null", str |-> <<>>]
JsUndefined == [type |-> "undefined", str |-> <<>>]
JsNumber    == [type |-> "number", str |-> <<>>]

\* A normal return of v, and a throw of new Error(msg); msg is the sequence of the
\* messages the catch blocks have chained, outermost first.
Return(v)  == [ok |-> TRUE, val |-> v, err |-> <<>>]
Throw(msg) == [ok |-> FALSE, val |-> <<>>, err |-> msg]

-----------------------------------------------------------------------------
(* Key format detection (index.js 20-104).                                  *)

KASPA_ACCOUNT_PATH    == "m/44'/111111'/0'"
KASPA_LEGACY_PATH     == "m/44'/972/0'"
KASPA_KASWARE_12_PATH == "m/44'/972/0'"
KASPA_KASWARE_24_PATH == "m/44'/111111'/0'"

\* A faulty value of BITCOIN_MAINNET_PUBLIC_BYTES: the Kaspium tag, so that the
\* conversion leaves the version bytes as they were.
KaspiumTagKept == <<3, 143, 51, 46>>

KASPA_MAINNET_PUBLIC_BYTES    == <<3, 143, 51, 46>>
KASPA_MAINNET_PRIVATE_BYTES   == <<3, 143, 46, 244>>
BITCOIN_MAINNET_PUBLIC_BYTES  == <<4, 136, 178, 30>>
BITCOIN_MAINNET_PRIVATE_BYTES == <<4, 136, 173, 228>>
BITCOIN_TESTNET_PUBLIC_BYTES  == <<4, 53, 135, 207>>

\* A faulty variant of detectKPUBFormat: the first character decides.
detectFirstLetter(extendedKey) ==
    IF extendedKey.type # "string"
    THEN Throw(<<"Extended key must be a string">>)
    ELSE IF StartsWith(extendedKey.str, <<"k">>) THEN Return("kaspium")
    ELSE IF StartsWith(extendedKey.str, <<"x">>) THEN Return("standard")
    ELSE IF StartsWith(extendedKey.str, <<"t">>) THEN Return("testnet")
    ELSE Throw(<<"Unsupported extended key format">>)

\* A faulty variant of detectKPUBFormat: the prefix is compared without regard to
\* the case of its letters.
detectAnyCase(extendedKey) ==
    LET low(c) == IF IndexOf(Upper, c) = 0 THEN c ELSE Lower[IndexOf(Upper, c)]
        head   == [k \in 1..4 |-> low(extendedKey.str[k])]
    IN  IF extendedKey.type # "string"
        THEN Throw(<<"Extended key must be a string">>)
        ELSE IF Len(extendedKey.str) < 4 THEN Throw(<<"Unsupported extended key format">>)
        ELSE IF head = <<"k","p","u","b">> THEN Return("kaspium")
        ELSE IF head = <<"x","p","u","b">> THEN Return("standard")
        ELSE IF head = <<"t","p","u","b">> THEN Return("testnet")
        ELSE Throw(<<"Unsupported extended key format">>)

detectKPUBFormat(extendedKey) ==
    IF extendedKey.type # "string"
    THEN Throw(<<"Extended key must be a string">>)
    ELSE IF StartsWith(extendedKey.str, <<"k","p","u","b">>) THEN Return("kaspium")
    ELSE IF StartsWith(extendedKey.str, <<"x","p","u","b">>) THEN Return("standard")
    ELSE IF StartsWith(extendedKey.str, <<"t","p","u","b">>) THEN Return("testnet")
    ELSE Throw(<<"Unsupported extended key format">>)

\* mnemonic.split(' ').length: one more than the number of spaces.
WordCount(str) == 1 + Cardinality({k \in 1..Len(str) : str[k] = " "})

\* if (mnemonic): null and the empty string are falsy.
Truthy(v) == v.type = "string" /\ v.str # <<>>

\* A faulty variant of FallbackFormat below: the format 'kaspium' is kept.
FallbackFormatKept(format) == format

\* format === 'kaspium' ? 'kpub' : format
FallbackFormat(format) == IF format = "kaspium" THEN "kpub" ELSE format

\* seedLength: null is modelled as 0.
detectWalletType(extendedKey, mnemonic) ==
  LET Classify(format) ==
    LET words    == WordCount(mnemonic.str)
        is24Word == words = 24
        is12Word == words = 12
        fallback == [wallet         |-> IF format.val = "kaspium" THEN "kaspium"
                                        ELSE "unknown",
                     format         |-> FallbackFormat(format.val),
                     derivationPath |-> IF format.val = "kaspium"
                                        THEN KASPA_ACCOUNT_PATH ELSE KASPA_LEGACY_PATH,
                     seedLength     |-> 0]
    IN  IF ~format.ok THEN format
        ELSE IF Truthy(mnemonic) /\ format.val = "kaspium"
        THEN Return([wallet |-> "kaspium", format |-> "kpub",
                     derivationPath |-> KASPA_ACCOUNT_PATH,
                     seedLength |-> IF is24Word THEN 24 ELSE 12])
        ELSE IF Truthy(mnemonic) /\ format.val = "standard" /\ is24Word
        THEN Return([wallet |-> "kasware_24", format |-> "xpub",
                     derivationPath |-> KASPA_KASWARE_24_PATH, seedLength |-> 24])
        ELSE IF Truthy(mnemonic) /\ format.val = "standard" /\ is12Word
        THEN Return([wallet |-> "kasware_12", format |-> "xpub",
                     derivationPath |-> KASPA_KASWARE_12_PATH, seedLength |-> 12])
        ELSE Return(fallback)
  IN  With(detectKPUBFormat(extendedKey), Classify)

-----------------------------------------------------------------------------
(* HDKey of @scure/bip32 (index.js 15): fromExtendedKey and deriveChild.    *)
(* The curve arithmetic and the HMAC-SHA512 of a child derivation are not   *)
(* computed: the points and the children of the model's keys are tabulated  *)
(* (exact values of secp256k1 and of BIP32 public derivation), and a key    *)
(* outside the tables has no value here.                                    *)

CurvePoints ==
    {<<2,31,14,67,138,206,62,31,100,177,91,246,1,57,85,63,232,66,246,198,187,178,241,48,38,129,217,11,159,254,240,212,103>>,
     <<2,47,242,95,201,169,82,57,236,137,25,255,151,118,53,26,30,205,175,18,173,26,225,199,0,137,23,212,7,89,177,135,185>>,
     <<2,62,11,194,87,108,178,139,144,246,155,123,255,22,1,174,192,125,133,239,117,178,153,238,10,237,185,172,171,224,27,87,208>>,
     <<2,62,114,194,73,28,249,178,8,93,74,8,213,157,114,56,93,53,147,213,190,223,211,215,196,223,140,49,160,12,126,101,59>>,
     <<2,64,31,153,66,31,160,58,44,16,130,89,93,135,244,13,200,58,174,58,163,156,215,178,201,229,145,212,255,84,40,55,24>>,
     <<2,66,133,210,40,33,152,75,55,179,78,245,43,129,229,124,187,164,33,98,91,185,53,43,182,232,9,227,183,42,150,232,181>>,
     <<2,76,42,27,203,244,234,104,188,146,214,79,232,123,8,237,121,202,45,110,26,187,234,68,117,254,201,99,192,229,44,5,8>>,
     <<2,92,217,248,170,72,57,208,212,232,67,230,235,142,246,252,233,184,71,106,157,104,213,126,123,135,48,58,226,151,247,176,178>>,
     <<2,101,231,195,198,40,253,193,12,248,220,52,124,94,9,18,30,190,156,174,45,21,212,123,238,229,87,108,65,109,103,181,33>>,
     <<2,109,158,215,90,12,179,55,27,184,249,211,5,189,6,174,162,65,189,24,226,76,151,223,27,219,252,37,132,254,51,20,212>>,
     <<2,127,124,154,107,137,233,34,97,239,238,225,59,58,175,178,69,226,77,84,34,244,150,237,176,243,72,25,178,95,212,239,223>>,
     <<2,186,74,161,213,164,190,155,208,238,122,169,106,45,101,87,7,142,197,207,3,164,204,60,47,152,64,203,192,211,42,55,45>>,
     <<2,200,148,247,165,42,206,207,21,61,55,213,252,140,169,249,139,33,179,167,126,92,6,93,23,130,173,62,158,52,20,43,133>>,
     <<2,200,168,45,92,252,179,217,193,184,40,11,132,201,239,158,244,198,7,49,32,107,173,170,63,77,144,58,174,226,170,138,66>>,
     <<2,203,30,120,134,143,0,11,83,84,1,129,89,51,68,210,172,158,6,79,83,73,249,158,206,83,153,216,186,251,80,13,4>>,
     <<2,215,146,99,187,242,5,77,246,236,34,51,13,150,73,58,229,100,197,250,2,230,72,85,81,118,59,49,124,194,162,154,198>>,
     <<2,219,234,68,51,19,113,40,199,64,95,93,1,174,13,48,245,116,88,192,5,6,244,236,152,184,206,162,170,243,232,167,249>>,
     <<2,241,179,253,152,46,64,76,253,242,127,235,112,133,111,59,20,113,141,46,144,19,199,132,105,195,188,185,225,103,174,46,101>>,
     <<2,248,165,193,123,97,187,173,220,239,134,73,2,39,77,233,6,41,219,131,230,92,14,138,56,219,129,142,17,203,165,96,31>>,
     <<2,254,120,140,65,67,29,7,148,79,220,58,24,223,115,41,4,19,254,212,19,56,82,207,114,128,225,128,93,94,36,213,207>>,
     <<3,43,189,51,208,254,163,44,230,156,101,33,167,74,56,130,215,21,171,35,188,193,70,196,33,197,88,140,30,242,84,85,178>>,
     <<3,55,9,236,18,164,61,212,236,125,24,198,248,208,21,253,172,89,236,235,254,63,62,113,93,173,208,169,228,6,255,130,243>>,
     <<3,68,2,22,46,225,247,190,138,30,128,102,223,51,217,93,56,10,27,114,18,12,29,188,165,160,185,136,208,88,149,171,84>>,
     <<3,96,150,26,25,45,126,233,27,16,129,203,193,133,154,243,100,231,167,9,127,31,120,1,149,244,108,7,248,55,61,9,32>>,
     <<3,102,27,254,57,194,100,173,236,99,168,140,101,210,215,106,160,192,98,122,219,11,136,209,94,100,185,14,165,103,241,253,30>>,
     <<3,120,99,123,94,67,58,117,248,71,113,172,23,151,247,231,61,229,122,110,157,123,23,98,243,75,133,148,42,242,146,38,252>>,
     <<3,124,71,40,40,162,94,0,125,232,180,11,205,144,250,154,173,48,178,248,27,234,148,50,105,181,159,166,112,172,200,2,255>>,
     <<3,146,171,107,97,64,150,197,108,106,227,226,164,82,146,205,109,98,25,26,110,75,124,181,107,172,104,230,108,79,57,225,39>>,
     <<3,187,224,179,70,27,74,57,12,17,165,0,133,61,219,70,31,73,69,225,255,62,182,32,140,157,98,203,206,122,13,67,232>>}

OffCurvePoints ==
    {<<2,43,189,51,208,254,163,44,230,156,101,33,167,74,56,130,215,21,171,35,188,193,70,196,33,197,88,140,30,242,84,85,179>>}

PrivateKeys ==
    {[privateKey |-> <<147,94,122,101,103,211,111,110,173,179,220,210,22,9,108,166,56,241,114,110,93,42,251,11,108,208,151,243,167,115,54,70>>,
      publicKey |-> <<2,92,217,248,170,72,57,208,212,232,67,230,235,142,246,252,233,184,71,106,157,104,213,126,123,135,48,58,226,151,247,176,178>>]}

ChildKeys ==
    {[publicKey |-> <<3,43,189,51,208,254,163,44,230,156,101,33,167,74,56,130,215,21,171,35,188,193,70,196,33,197,88,140,30,242,84,85,178>>,
      chainCode |-> <<118,228,134,186,113,136,53,147,181,78,249,11,176,7,242,54,153,118,169,147,128,86,75,212,197,154,51,163,247,168,181,59>>,
      index |-> 0,
      childKey |-> <<2,219,234,68,51,19,113,40,199,64,95,93,1,174,13,48,245,116,88,192,5,6,244,236,152,184,206,162,170,243,232,167,249>>,
      childChainCode |-> <<53,41,185,124,103,91,50,189,82,110,130,250,82,141,7,172,92,169,133,46,24,87,117,254,183,59,111,182,239,110,112,254>>],
     [publicKey |-> <<2,219,234,68,51,19,113,40,199,64,95,93,1,174,13,48,245,116,88,192,5,6,244,236,152,184,206,162,170,243,232,167,249>>,
      chainCode |-> <<53,41,185,124,103,91,50,189,82,110,130,250,82,141,7,172,92,169,133,46,24,87,117,254,183,59,111,182,239,110,112,254>>,
      index |-> 0,
      childKey |-> <<2,200,148,247,165,42,206,207,21,61,55,213,252,140,169,249,139,33,179,167,126,92,6,93,23,130,173,62,158,52,20,43,133>>,
      childChainCode |-> <<143,14,253,41,27,92,86,226,222,128,152,184,241,237,192,144,79,162,181,247,244,11,232,144,98,205,176,69,175,214,134,144>>],
     [publicKey |-> <<2,219,234,68,51,19,113,40,199,64,95,93,1,174,13,48,245,116,88,192,5,6,244,236,152,184,206,162,170,243,232,167,249>>,
      chainCode |-> <<53,41,185,124,103,91,50,189,82,110,130,250,82,141,7,172,92,169,133,46,24,87,117,254,183,59,111,182,239,110,112,254>>,
      index |-> 1,
      childKey |-> <<2,200,168,45,92,252,179,217,193,184,40,11,132,201,239,158,244,198,7,49,32,107,173,170,63,77,144,58,174,226,170,138,66>>,
      childChainCode |-> <<58,128,121,244,55,104,186,128,228,251,69,72,83,205,128,1,62,177,122,144,177,250,108,87,26,233,171,6,186,238,29,170>>],
     [publicKey |-> <<2,219,234,68,51,19,113,40,199,64,95,93,1,174,13,48,245,116,88,192,5,6,244,236,152,184,206,162,170,243,232,167,249>>,
      chainCode |-> <<53,41,185,124,103,91,50,189,82,110,130,250,82,141,7,172,92,169,133,46,24,87,117,254,183,59,111,182,239,110,112,254>>,
      index |-> 2,
      childKey |-> <<2,186,74,161,213,164,190,155,208,238,122,169,106,45,101,87,7,142,197,207,3,164,204,60,47,152,64,203,192,211,42,55,45>>,
      childChainCode |-> <<227,210,178,240,58,21,191,156,160,232,7,95,0,111,229,224,145,168,90,173,103,210,198,163,209,171,12,172,159,203,97,255>>],
     [publicKey |-> <<2,219,234,68,51,19,113,40,199,64,95,93,1,174,13,48,245,116,88,192,5,6,244,236,152,184,206,162,170,243,232,167,249>>,
      chainCode |-> <<53,41,185,124,103,91,50,189,82,110,130,250,82,141,7,172,92,169,133,46,24,87,117,254,183,59,111,182,239,110,112,254>>,
      index |-> 3,
      childKey |-> <<2,62,11,194,87,108,178,139,144,246,155,123,255,22,1,174,192,125,133,239,117,178,153,238,10,237,185,172,171,224,27,87,208>>,
      childChainCode |-> <<193,103,13,222,25,115,4,213,167,81,78,130,55,248,165,83,110,180,133,55,45,141,208,185,147,59,198,144,135,178,69,34>>],
     [publicKey |-> <<2,219,234,68,51,19,113,40,199,64,95,93,1,174,13,48,245,116,88,192,5,6,244,236,152,184,206,162,170,243,232,167,249>>,
      chainCode |-> <<53,41,185,124,103,91,50,189,82,110,130,250,82,141,7,172,92,169,133,46,24,87,117,254,183,59,111,182,239,110,112,254>>,
      index |-> 4,
      childKey |-> <<2,62,114,194,73,28,249,178,8,93,74,8,213,157,114,56,93,53,147,213,190,223,211,215,196,223,140,49,160,12,126,101,59>>,
      childChainCode |-> <<201,226,224,206,194,153,213,211,54,248,84,125,179,95,218,192,77,28,136,36,108,48,151,78,240,3,66,26,241,64,90,31>>],
     [publicKey |-> <<2,219,234,68,51,19,113,40,199,64,95,93,1,174,13,48,245,116,88,192,5,6,244,236,152,184,206,162,170,243,232,167,249>>,
      chainCode |-> <<53,41,185,124,103,91,50,189,82,110,130,250,82,141,7,172,92,169,133,46,24,87,117,254,183,59,111,182,239,110,112,254>>,
      index |-> 5,
      childKey |-> <<2,109,158,215,90,12,179,55,27,184,249,211,5,189,6,174,162,65,189,24,226,76,151,223,27,219,252,37,132,254,51,20,212>>,
      childChainCode |-> <<80,13,177,196,141,219,149,245,7,22,69,130,228,135,12,168,14,78,246,117,104,217,230,174,80,218,105,18,108,215,169,74>>],
     [publicKey |-> <<2,219,234,68,51,19,113,40,199,64,95,93,1,174,13,48,245,116,88,192,5,6,244,236,152,184,206,162,170,243,232,167,249>>,
      chainCode |-> <<53,41,185,124,103,91,50,189,82,110,130,250,82,141,7,172,92,169,133,46,24,87,117,254,183,59,111,182,239,110,112,254>>,
      index |-> 6,
      childKey |-> <<2,64,31,153,66,31,160,58,44,16,130,89,93,135,244,13,200,58,174,58,163,156,215,178,201,229,145,212,255,84,40,55,24>>,
      childChainCode |-> <<17,219,47,234,113,3,72,150,201,234,200,222,172,191,104,157,25,188,157,243,83,114,160,73,21,52,53,87,234,51,59,73>>],
     [publicKey |-> <<2,219,234,68,51,19,113,40,199,64,95,93,1,174,13,48,245,116,88,192,5,6,244,236,152,184,206,162,170,243,232,167,249>>,
      chainCode |-> <<53,41,185,124,103,91,50,189,82,110,130,250,82,141,7,172,92,169,133,46,24,87,117,254,183,59,111,182,239,110,112,254>>,
      index |-> 7,
      childKey |-> <<2,248,165,193,123,97,187,173,220,239,134,73,2,39,77,233,6,41,219,131,230,92,14,138,56,219,129,142,17,203,165,96,31>>,
      childChainCode |-> <<160,100,231,24,7,72,227,228,157,112,245,117,129,110,38,0,172,51,223,225,209,194,148,21,229,4,203,124,91,81,229,205>>],
     [publicKey |-> <<2,200,148,247,165,42,206,207,21,61,55,213,252,140,169,249,139,33,179,167,126,92,6,93,23,130,173,62,158,52,20,43,133>>,
      chainCode |-> <<143,14,253,41,27,92,86,226,222,128,152,184,241,237,192,144,79,162,181,247,244,11,232,144,98,205,176,69,175,214,134,144>>,
      index |-> 0,
      childKey |-> <<3,120,99,123,94,67,58,117,248,71,113,172,23,151,247,231,61,229,122,110,157,123,23,98,243,75,133,148,42,242,146,38,252>>,
      childChainCode |-> <<202,28,100,53,181,80,231,144,185,109,219,116,152,134,105,125,119,107,98,157,38,175,93,123,29,2,39,109,250,236,242,171>>],
     [publicKey |-> <<3,120,99,123,94,67,58,117,248,71,113,172,23,151,247,231,61,229,122,110,157,123,23,98,243,75,133,148,42,242,146,38,252>>,
      chainCode |-> <<202,28,100,53,181,80,231,144,185,109,219,116,152,134,105,125,119,107,98,157,38,175,93,123,29,2,39,109,250,236,242,171>>,
      index |-> 0,
      childKey |-> <<3,96,150,26,25,45,126,233,27,16,129,203,193,133,154,243,100,231,167,9,127,31,120,1,149,244,108,7,248,55,61,9,32>>,
      childChainCode |-> <<50,8,28,40,229,180,170,28,244,173,181,101,88,161,51,131,45,85,147,179,223,171,76,134,228,28,66,8,194,95,44,85>>],
     [publicKey |-> <<3,120,99,123,94,67,58,117,248,71,113,172,23,151,247,231,61,229,122,110,157,123,23,98,243,75,133,148,42,242,146,38,252>>,
      chainCode |-> <<202,28,100,53,181,80,231,144,185,109,219,116,152,134,105,125,119,107,98,157,38,175,93,123,29,2,39,109,250,236,242,171>>,
      index |-> 1,
      childKey |-> <<3,102,27,254,57,194,100,173,236,99,168,140,101,210,215,106,160,192,98,122,219,11,136,209,94,100,185,14,165,103,241,253,30>>,
      childChainCode |-> <<203,201,101,141,10,51,165,33,161,204,158,123,105,64,225,42,211,106,60,241,253,94,249,26,74,82,96,130,33,171,202,4>>],
     [publicKey |-> <<3,120,99,123,94,67,58,117,248,71,113,172,23,151,247,231,61,229,122,110,157,123,23,98,243,75,133,148,42,242,146,38,252>>,
      chainCode |-> <<202,28,100,53,181,80,231,144,185,109,219,116,152,134,105,125,119,107,98,157,38,175,93,123,29,2,39,109,250,236,242,171>>,
      index |-> 2,
      childKey |-> <<3,55,9,236,18,164,61,212,236,125,24,198,248,208,21,253,172,89,236,235,254,63,62,113,93,173,208,169,228,6,255,130,243>>,
      childChainCode |-> <<32,166,58,212,1,160,223,69,197,186,28,68,27,207,135,73,20,207,110,119,72,123,162,253,247,233,122,14,202,187,136,119>>],
     [publicKey |-> <<3,120,99,123,94,67,58,117,248,71,113,172,23,151,247,231,61,229,122,110,157,123,23,98,243,75,133,148,42,242,146,38,252>>,
      chainCode |-> <<202,28,100,53,181,80,231,144,185,109,219,116,152,134,105,125,119,107,98,157,38,175,93,123,29,2,39,109,250,236,242,171>>,
      index |-> 3,
      childKey |-> <<2,254,120,140,65,67,29,7,148,79,220,58,24,223,115,41,4,19,254,212,19,56,82,207,114,128,225,128,93,94,36,213,207>>,
      childChainCode |-> <<206,6,118,9,137,202,195,181,69,19,218,104,233,180,106,15,175,42,155,33,172,56,33,110,108,226,116,153,55,142,237,188>>],
     [publicKey |-> <<3,120,99,123,94,67,58,117,248,71,113,172,23,151,247,231,61,229,122,110,157,123,23,98,243,75,133,148,42,242,146,38,252>>,
      chainCode |-> <<202,28,100,53,181,80,231,144,185,109,219,116,152,134,105,125,119,107,98,157,38,175,93,123,29,2,39,109,250,236,242,171>>,
      index |-> 4,
      childKey |-> <<2,101,231,195,198,40,253,193,12,248,220,52,124,94,9,18,30,190,156,174,45,21,212,123,238,229,87,108,65,109,103,181,33>>,
      childChainCode |-> <<25,183,204,88,2,141,68,89,210,140,121,22,95,46,102,189,246,59,164,66,120,190,88,179,46,139,1,141,16,53,212,165>>],
     [publicKey |-> <<3,120,99,123,94,67,58,117,248,71,113,172,23,151,247,231,61,229,122,110,157,123,23,98,243,75,133,148,42,242,146,38,252>>,
      chainCode |-> <<202,28,100,53,181,80,231,144,185,109,219,116,152,134,105,125,119,107,98,157,38,175,93,123,29,2,39,109,250,236,242,171>>,
      index |-> 5,
      childKey |-> <<2,76,42,27,203,244,234,104,188,146,214,79,232,123,8,237,121,202,45,110,26,187,234,68,117,254,201,99,192,229,44,5,8>>,
      childChainCode |-> <<13,149,226,104,110,204,108,2,250,236,128,168,106,226,67,184,204,52,134,227,100,29,196,164,254,133,249,125,218,68,240,227>>],
     [publicKey |-> <<3,120,99,123,94,67,58,117,248,71,113,172,23,151,247,231,61,229,122,110,157,123,23,98,243,75,133,148,42,242,146,38,252>>,
      chainCode |-> <<202,28,100,53,181,80,231,144,185,109,219,116,152,134,105,125,119,107,98,157,38,175,93,123,29,2,39,109,250,236,242,171>>,
      index |-> 6,
      childKey |-> <<2,31,14,67,138,206,62,31,100,177,91,246,1,57,85,63,232,66,246,198,187,178,241,48,38,129,217,11,159,254,240,212,103>>,
      childChainCode |-> <<19,32,90,248,94,233,194,15,116,195,123,108,132,165,50,15,141,85,168,176,19,104,110,244,32,110,241,102,216,123,192,99>>],
     [publicKey |-> <<3,120,99,123,94,67,58,117,248,71,113,172,23,151,247,231,61,229,122,110,157,123,23,98,243,75,133,148,42,242,146,38,252>>,
      chainCode |-> <<202,28,100,53,181,80,231,144,185,109,219,116,152,134,105,125,119,107,98,157,38,175,93,123,29,2,39,109,250,236,242,171>>,
      index |-> 7,
      childKey |-> <<3,124,71,40,40,162,94,0,125,232,180,11,205,144,250,154,173,48,178,248,27,234,148,50,105,181,159,166,112,172,200,2,255>>,
      childChainCode |-> <<149,187,235,194,207,78,23,93,176,147,160,20,190,143,159,52,34,246,96,188,109,181,189,181,177,224,13,81,237,49,105,4>>],
     [publicKey |-> <<2,92,217,248,170,72,57,208,212,232,67,230,235,142,246,252,233,184,71,106,157,104,213,126,123,135,48,58,226,151,247,176,178>>,
      chainCode |-> <<118,228,134,186,113,136,53,147,181,78,249,11,176,7,242,54,153,118,169,147,128,86,75,212,197,154,51,163,247,168,181,59>>,
      index |-> 0,
      childKey |-> <<3,187,224,179,70,27,74,57,12,17,165,0,133,61,219,70,31,73,69,225,255,62,182,32,140,157,98,203,206,122,13,67,232>>,
      childChainCode |-> <<193,2,209,228,140,177,216,119,142,203,152,198,98,205,106,205,101,37,178,152,206,111,181,18,167,10,86,209,170,35,78,26>>],
     [publicKey |-> <<3,187,224,179,70,27,74,57,12,17,165,0,133,61,219,70,31,73,69,225,255,62,182,32,140,157,98,203,206,122,13,67,232>>,
      chainCode |-> <<193,2,209,228,140,177,216,119,142,203,152,198,98,205,106,205,101,37,178,152,206,111,181,18,167,10,86,209,170,35,78,26>>,
      index |-> 0,
      childKey |-> <<3,68,2,22,46,225,247,190,138,30,128,102,223,51,217,93,56,10,27,114,18,12,29,188,165,160,185,136,208,88,149,171,84>>,
      childChainCode |-> <<69,138,14,207,241,40,222,136,81,193,152,245,165,219,80,187,175,167,249,67,216,105,223,55,159,86,97,189,194,165,0,190>>],
     [publicKey |-> <<3,187,224,179,70,27,74,57,12,17,165,0,133,61,219,70,31,73,69,225,255,62,182,32,140,157,98,203,206,122,13,67,232>>,
      chainCode |-> <<193,2,209,228,140,177,216,119,142,203,152,198,98,205,106,205,101,37,178,152,206,111,181,18,167,10,86,209,170,35,78,26>>,
      index |-> 1,
      childKey |-> <<2,47,242,95,201,169,82,57,236,137,25,255,151,118,53,26,30,205,175,18,173,26,225,199,0,137,23,212,7,89,177,135,185>>,
      childChainCode |-> <<43,67,94,18,100,67,111,196,170,27,220,21,75,45,222,39,15,170,237,245,111,242,98,146,92,200,5,61,33,250,90,221>>],
     [publicKey |-> <<3,187,224,179,70,27,74,57,12,17,165,0,133,61,219,70,31,73,69,225,255,62,182,32,140,157,98,203,206,122,13,67,232>>,
      chainCode |-> <<193,2,209,228,140,177,216,119,142,203,152,198,98,205,106,205,101,37,178,152,206,111,181,18,167,10,86,209,170,35,78,26>>,
      index |-> 2,
      childKey |-> <<3,146,171,107,97,64,150,197,108,106,227,226,164,82,146,205,109,98,25,26,110,75,124,181,107,172,104,230,108,79,57,225,39>>,
      childChainCode |-> <<252,253,156,80,226,125,145,189,37,200,63,228,138,191,251,206,126,210,40,188,24,40,53,107,124,234,64,251,198,213,71,192>>],
     [publicKey |-> <<3,187,224,179,70,27,74,57,12,17,165,0,133,61,219,70,31,73,69,225,255,62,182,32,140,157,98,203,206,122,13,67,232>>,
      chainCode |-> <<193,2,209,228,140,177,216,119,142,203,152,198,98,205,106,205,101,37,178,152,206,111,181,18,167,10,86,209,170,35,78,26>>,
      index |-> 3,
      childKey |-> <<2,66,133,210,40,33,152,75,55,179,78,245,43,129,229,124,187,164,33,98,91,185,53,43,182,232,9,227,183,42,150,232,181>>,
      childChainCode |-> <<116,245,223,48,60,115,244,16,226,175,40,213,55,255,138,250,213,20,196,252,147,146,83,180,5,74,242,174,136,94,89,169>>],
     [publicKey |-> <<3,187,224,179,70,27,74,57,12,17,165,0,133,61,219,70,31,73,69,225,255,62,182,32,140,157,98,203,206,122,13,67,232>>,
      chainCode |-> <<193,2,209,228,140,177,216,119,142,203,152,198,98,205,106,205,101,37,178,152,206,111,181,18,167,10,86,209,170,35,78,26>>,
      index |-> 4,
      childKey |-> <<2,203,30,120,134,143,0,11,83,84,1,129,89,51,68,210,172,158,6,79,83,73,249,158,206,83,153,216,186,251,80,13,4>>,
      childChainCode |-> <<180,125,238,243,209,183,9,97,176,56,181,67,139,60,135,23,197,224,100,105,154,237,5,141,97,219,24,216,107,95,120,219>>],
     [publicKey |-> <<3,187,224,179,70,27,74,57,12,17,165,0,133,61,219,70,31,73,69,225,255,62,182,32,140,157,98,203,206,122,13,67,232>>,
      chainCode |-> <<193,2,209,228,140,177,216,119,142,203,152,198,98,205,106,205,101,37,178,152,206,111,181,18,167,10,86,209,170,35,78,26>>,
      index |-> 5,
      childKey |-> <<2,215,146,99,187,242,5,77,246,236,34,51,13,150,73,58,229,100,197,250,2,230,72,85,81,118,59,49,124,194,162,154,198>>,
      childChainCode |-> <<187,248,130,124,69,129,117,200,7,126,190,6,46,57,159,233,171,225,3,196,50,43,149,36,82,151,43,209,25,185,233,179>>],
     [publicKey |-> <<3,187,224,179,70,27,74,57,12,17,165,0,133,61,219,70,31,73,69,225,255,62,182,32,140,157,98,203,206,122,13,67,232>>,
      chainCode |-> <<193,2,209,228,140,177,216,119,142,203,152,198,98,205,106,205,101,37,178,152,206,111,181,18,167,10,86,209,170,35,78,26>>,
      index |-> 6,
      childKey |-> <<2,241,179,253,152,46,64,76,253,242,127,235,112,133,111,59,20,113,141,46,144,19,199,132,105,195,188,185,225,103,174,46,101>>,
      childChainCode |-> <<223,61,133,197,253,117,139,216,188,144,112,138,24,47,51,212,0,58,170,80,242,221,42,222,6,126,0,221,80,26,118,169>>],
     [publicKey |-> <<3,187,224,179,70,27,74,57,12,17,165,0,133,61,219,70,31,73,69,225,255,62,182,32,140,157,98,203,206,122,13,67,232>>,
      chainCode |-> <<193,2,209,228,140,177,216,119,142,203,152,198,98,205,106,205,101,37,178,152,206,111,181,18,167,10,86,209,170,35,78,26>>,
      index |-> 7,
      childKey |-> <<2,127,124,154,107,137,233,34,97,239,238,225,59,58,175,178,69,226,77,84,34,244,150,237,176,243,72,25,178,95,212,239,223>>,
      childChainCode |-> <<231,154,89,203,247,217,189,255,222,239,82,21,119,58,125,159,27,91,183,223,73,101,62,1,217,85,211,204,156,51,218,182>>],
     [publicKey |-> <<2,219,234,68,51,19,113,40,199,64,95,93,1,174,13,48,245,116,88,192,5,6,244,236,152,184,206,162,170,243,232,167,249>>,
      chainCode |-> <<53,41,185,124,103,91,50,189,82,110,130,250,82,141,7,172,92,169,133,46,24,87,117,254,183,59,111,182,239,110,112,254>>,
      index |-> 2147483647,
      childKey |-> <<2,138,16,235,141,32,95,22,48,203,45,254,53,63,12,71,2,49,138,209,54,154,174,185,83,127,184,100,100,85,193,128,219>>,
      childChainCode |-> <<141,98,174,199,67,77,114,205,24,234,226,19,204,122,214,43,230,201,201,114,186,39,138,222,221,72,127,249,153,31,99,150>>],
     [publicKey |-> <<3,187,224,179,70,27,74,57,12,17,165,0,133,61,219,70,31,73,69,225,255,62,182,32,140,157,98,203,206,122,13,67,232>>,
      chainCode |-> <<193,2,209,228,140,177,216,119,142,203,152,198,98,205,106,205,101,37,178,152,206,111,181,18,167,10,86,209,170,35,78,26>>,
      index |-> 2147483647,
      childKey |-> <<2,54,150,168,73,87,13,98,117,221,174,155,225,251,48,66,59,19,21,206,183,177,95,168,89,207,130,141,186,91,24,87,227>>,
      childChainCode |-> <<229,88,176,142,209,195,1,129,128,226,209,235,166,152,255,42,190,223,216,227,152,116,88,195,50,251,179,63,36,161,190,81>>],
     [publicKey |-> <<3,120,99,123,94,67,58,117,248,71,113,172,23,151,247,231,61,229,122,110,157,123,23,98,243,75,133,148,42,242,146,38,252>>,
      chainCode |-> <<202,28,100,53,181,80,231,144,185,109,219,116,152,134,105,125,119,107,98,157,38,175,93,123,29,2,39,109,250,236,242,171>>,
      index |-> 2147483647,
      childKey |-> <<2,246,37,56,42,194,179,9,27,209,119,69,198,36,189,254,39,17,220,73,220,24,210,115,86,39,10,115,156,3,81,47,217>>,
      childChainCode |-> <<213,133,248,120,13,40,137,186,70,32,101,224,250,172,79,82,99,4,173,206,63,220,239,14,134,13,186,200,220,88,209,13>>]}

\* The default versions of the library: 0x0488ade4 and 0x0488b21e.
BITCOIN_VERSIONS == [private |-> <<4, 136, 173, 228>>, public |-> <<4, 136, 178, 30>>]

\* Point.fromHex on the key material of a public extended key: 33 bytes, the
\* first one 2 or 3, the other 32 the X coordinate of a curve point.
IsPoint(key) ==
    /\ Len(key) = 33
    /\ key[1] \in {2, 3}
    /\ (CHOOSE b \in BOOLEAN : \/ b /\ key \in CurvePoints
                               \/ ~b /\ key \in OffCurvePoints)

\* HDKey.fromExtendedKey(base58key) with the default (Bitcoin mainnet) versions.
\* The result holds the fields the program reads: publicKey, and the chain code
\* and depth that deriveChild uses.
HDKeyFromExtendedKey(base58key) ==
    LET Parse(keyBuffer) ==
            LET b        == keyBuffer.val
                version  == SubSeq(b, 1, 4)
                depth    == b[5]
                parentFingerprint == SubSeq(b, 6, 9)
                index    == SubSeq(b, 10, 13)
                chainCode == SubSeq(b, 14, 45)
                key      == SubSeq(b, 46, Len(b))
                isPriv   == Len(key) > 0 /\ key[1] = 0
                known    == {e \in PrivateKeys : <<0>> \o e.privateKey = key}
            IN  IF ~keyBuffer.ok THEN Throw(<<"Invalid checksum">>)
                ELSE IF Len(b) < 13
                THEN Throw(<<"Offset is outside the bounds of the DataView">>)
                ELSE IF version # (IF isPriv THEN BITCOIN_VERSIONS.private
                                   ELSE BITCOIN_VERSIONS.public)
                THEN Throw(<<"Version mismatch">>)
                ELSE IF depth = 0 /\ (parentFingerprint # <<0, 0, 0, 0>>
                                        \/ index # <<0, 0, 0, 0>>)
                THEN Throw(<<"HDKey: zero depth with non-zero index/parent fingerprint">>)
                ELSE IF isPriv
                THEN IF Len(key) = 33 /\ known # {}
                     THEN Return([depth |-> depth, chainCode |-> chainCode,
                                  publicKey |-> (CHOOSE e \in known : TRUE).publicKey,
                                  privateKey |-> SubSeq(key, 2, 33)])
                     ELSE Throw(<<"Invalid private key">>)
                ELSE IF IsPoint(key)
                THEN Return([depth |-> depth, chainCode |-> chainCode,
                             publicKey |-> key, privateKey |-> <<>>])
                ELSE Throw(<<"Point is not on curve">>)
    IN  With(base58checkDecode(base58key), Parse)

HARDENED_OFFSET == [hi |-> 2048, lo |-> 0, e |-> 0]      \* 0x80000000
U32_LIMIT == [hi |-> 4096, lo |-> 0, e |-> 0]            \* 2^32

\* index >= HARDENED_OFFSET
IsHardened(index) == ~NumLess(index, HARDENED_OFFSET)

\* A faulty variant of ChildAt below: the index is ignored and the child at
\* index 0 is returned.
ChildAtZero(hdKey, index) ==
    CHOOSE e \in ChildKeys : /\ e.publicKey = hdKey.publicKey
                             /\ e.chainCode = hdKey.chainCode
                             /\ e.index = 0

\* The entry of ChildKeys for the child of hdKey at a non-hardened index.
ChildAt(hdKey, index) ==
    CHOOSE e \in ChildKeys : /\ e.publicKey = hdKey.publicKey
                             /\ e.chainCode = hdKey.chainCode
                             /\ e.index = NumInt(index)

\* hdKey.deriveChild(index), index a number (Num).  An index that is no unsigned
\* 32-bit integer throws; a hardened index needs the private key, which a child
\* derived from a public key does not have; the child of a non-hardened index
\* is read from ChildKeys.
deriveChild(hdKey, index) ==
    LET Child(e) == Return([depth |-> hdKey.depth + 1, chainCode |-> e.childChainCode,
                            publicKey |-> e.childKey, privateKey |-> <<>>])
    IN  IF index.hi < 0 \/ ~NumLess(index, U32_LIMIT) THEN Throw(<<"Invalid number">>)
        ELSE IF IsHardened(index) /\ hdKey.privateKey = <<>>
        THEN Throw(<<"Could not derive hardened child key">>)
        ELSE With(ChildAt(hdKey, index), Child)

-----------------------------------------------------------------------------
(* convertKaspiumKPUBToStandard (index.js 116-179).                         *)

\* Faulty variants of the two checks below: a payload longer than 78 bytes
\* passes, and the standard public version bytes pass.
LengthAtLeast78(decoded) == Len(decoded) >= 78
IsStandardVersion(versionBytes) == versionBytes = BITCOIN_MAINNET_PUBLIC_BYTES

\* decoded.length === 78
LengthIs78(decoded) == Len(decoded) = 78

\* versionBytes.every((byte, i) => byte === expectedVersion[i])
IsKaspiumVersion(versionBytes) ==
    LET expectedVersion == KASPA_MAINNET_PUBLIC_BYTES
    IN  \A i \in 1..Len(versionBytes) : versionBytes[i] = expectedVersion[i]

\* A faulty variant of CompressedCheckThrows below: a first byte other than
\* 0x02 and 0x03 is an error.
UncompressedThrows(publicKey) == publicKey[1] \notin {2, 3}

\* if (publicKey[0] !== 0x02 && publicKey[0] !== 0x03) { console.warn under
\* DEBUG }: nothing is thrown.
CompressedCheckThrows(publicKey) == FALSE

convertKaspiumKPUBToStandard(kpub) ==
    LET Failed(msg) ==
            Throw(<<"Failed to convert Kaspium KPUB to standard format">> \o msg)
        Validate(convertedXpub) ==
            LET Check(testKey) ==
                    IF ~testKey.ok
                    THEN Failed(<<"Converted XPUB is invalid">> \o testKey.err)
                    ELSE Return(convertedXpub)
            IN  With(HDKeyFromExtendedKey(convertedXpub), Check)
        Convert(decoded) ==
            LET d            == decoded.val
                versionBytes == SubSeq(d, 1, 4)
                depth        == d[5]
                fingerprint  == SubSeq(d, 6, 9)
                childNumber  == SubSeq(d, 10, 13)
                chainCode    == SubSeq(d, 14, 45)
                publicKey    == SubSeq(d, 46, 78)
                standardVersion == BITCOIN_MAINNET_PUBLIC_BYTES
                standardExtendedKey ==
                    Uint8Array(standardVersion \o <<depth>> \o fingerprint
                                 \o childNumber \o chainCode \o publicKey)
            IN  IF ~decoded.ok THEN Failed(<<"Base58Check decoding failed">>)
                ELSE IF ~LengthIs78(d) THEN Failed(<<"Invalid KPUB length">>)
                ELSE IF ~IsKaspiumVersion(versionBytes)
                THEN Failed(<<"Not a valid Kaspium KPUB">>)
                ELSE IF Len(publicKey) # 33 THEN Failed(<<"Invalid public key length">>)
                ELSE IF CompressedCheckThrows(publicKey)
                THEN Failed(<<"Public key is not in compressed format">>)
                ELSE With(base58checkEncode(standardExtendedKey), Validate)
    IN  With(IF kpub.type = "string" THEN base58checkDecode(kpub.str) ELSE Null,
             Convert)

-----------------------------------------------------------------------------
(* generateAddressesFromAnyKPUB (index.js 320-378).                         *)

\* A faulty variant of Rethrow below: the addresses built before the failure are
\* returned.
ReturnPartial(error, addresses) == Return(addresses)

\* catch (error) { ...; throw error; } around the body of the function: the
\* error leaves the call and the addresses built so far are dropped.
Rethrow(error, addresses) == error

\* The for loop from i (a Num) while i < end on the list of addresses built so
\* far; a throw in an iteration ends the loop and the call.
RECURSIVE AddressLoop(_, _, _, _, _, _)
AddressLoop(hdKey, walletInfo, addressPrefix, i, end, addresses) ==
    LET Push(addressKey) ==
            LET publicKeyHex == ToHex(addressKey.val.publicKey)
                Record(address) ==
                    IF ~address.ok
                    THEN Rethrow(Throw(<<"convertBits failed">>), addresses)
                    ELSE With(Append(addresses,
                                [index          |-> NumInt(i),
                                 address        |-> address.val,
                                 publicKey      |-> publicKeyHex,
                                 path           |-> <<"m/0/", NumInt(i)>>,
                                 walletType     |-> walletInfo.wallet,
                                 derivationPath |-> walletInfo.derivationPath,
                                 sourceFormat   |-> walletInfo.format,
                                 isWatchOnly    |-> TRUE]),
                              LAMBDA pushed : AddressLoop(hdKey, walletInfo,
                                                addressPrefix, NumAdd(i, Num(1)), end, pushed))
            IN  IF ~addressKey.ok THEN Rethrow(addressKey, addresses)
                ELSE With(kaspaEncodePubKeyAddress(addressKey.val.publicKey,
                                                   addressPrefix), Record)
        Derive(externalChain) ==
            IF ~externalChain.ok THEN Rethrow(externalChain, addresses)
            ELSE With(deriveChild(externalChain.val, i), Push)
    IN  IF ~NumLess(i, end) THEN Return(addresses)
        ELSE With(deriveChild(hdKey, Num(0)), Derive)

\* A faulty variant of NeedsConversion below: no key is converted.
NeverConverts(walletInfo) == FALSE

\* if (walletInfo.format === 'kpub')
NeedsConversion(walletInfo) == walletInfo.format = "kpub"

generateAddressesFromAnyKPUB(extendedKey, startIndex, count, mnemonic) ==
    LET Generate(walletInfo) ==
            LET isTestnet     == walletInfo.val.format = "testnet"
                addressPrefix == IF isTestnet THEN <<"k","a","s","p","a","t","e","s","t">>
                                 ELSE <<"k","a","s","p","a">>
                Finish(addresses) ==
                    IF ~addresses.ok THEN addresses
                    ELSE Return([addresses      |-> addresses.val,
                                 walletInfo     |-> walletInfo.val,
                                 totalGenerated |-> count])
                Loop(hdKey) ==
                    IF ~hdKey.ok THEN hdKey
                    ELSE With(AddressLoop(hdKey.val, walletInfo.val, addressPrefix,
                                          Num(startIndex),
                                          NumAdd(Num(startIndex), Num(count)), <<>>),
                              Finish)
                Parse(workingXpub) ==
                    IF ~workingXpub.ok THEN workingXpub
                    ELSE With(HDKeyFromExtendedKey(workingXpub.val), Loop)
            IN  IF ~walletInfo.ok THEN walletInfo
                ELSE With(IF NeedsConversion(walletInfo.val)
                          THEN convertKaspiumKPUBToStandard(extendedKey)
                          ELSE Return(extendedKey.str),
                          Parse)
    IN  With(detectWalletType(extendedKey, mnemonic), Generate)

-----------------------------------------------------------------------------
(* Specification SpecBits: convertBits applied to bounded symbol sequences, *)
(* and the strict decode of an encode's result.                             *)

\* 2^32: a number whose low 32 bits are zero.
Two32 == [hi |-> 4096, lo |-> 0, e |-> 0]

\* The symbols a sequence is drawn from: -1, values that fit in 5 bits, in 8 bits
\* only, in neither, and 2^32.
SymbolValues == {Num(-1), Num(0), Num(21), Num(255), Num(256), Two32}

SymbolSeqs == UNION {[1..n -> SymbolValues] : n \in 0..MaxLen}

InitBits ==
    /\ op = "convertBits"
    /\ input \in {[data |-> d, fromBits |-> w[1], toBits |-> w[2], pad |-> p] :
                    d \in SymbolSeqs, w \in {<<8, 5>>, <<5, 8>>}, p \in BOOLEAN}
    /\ pc = "call"
    /\ ret = Null

\* ret = convertBits(data, fromBits, toBits, pad)
ConvertBitsCall ==
    /\ op = "convertBits" /\ pc = "call"
    /\ ret' = convertBits(input.data, input.fromBits, input.toBits, input.pad)
    /\ pc' = "done"
    /\ UNCHANGED <<op, input>>

\* ret = convertBits(ret, 5, 8, false) on the array an 8 -> 5 padded call returned
ConvertBitsBack ==
    /\ op = "convertBits" /\ pc = "done"
    /\ input.fromBits = 8 /\ input.toBits = 5 /\ input.pad /\ ret.ok
    /\ ret' = convertBits(Numbers(ret.val), 5, 8, FALSE)
    /\ pc' = "back"
    /\ UNCHANGED <<op, input>>

NextBits == ConvertBitsCall \/ ConvertBitsBack

SpecBits == InitBits /\ [][NextBits]_vars

\* A symbol that is an integer of w bits: 0 <= v < 2^w.
Fits(v, w) == v.e = 0 /\ v.hi = 0 /\ v.lo < Pow2(w)

\* A symbol that is an integer in the signed 32-bit range.
InInt32(v) == v.e = 0 /\ v.hi >= -2048 /\ v.hi < 2048

\* Bit j (1 = first) of the stream of w-wide big-endian groups; 0 past its end.
StreamBit(data, w, j) ==
    IF j > Len(data) * w THEN 0
    ELSE Bit(data[(j - 1) \div w + 1].lo, w - 1 - ((j - 1) % w))

\* The value of stream bits j..j+n-1 read most significant first.
RECURSIVE StreamValue(_, _, _, _)
StreamValue(data, w, j, n) ==
    IF n = 0 THEN 0
    ELSE 2 * StreamValue(data, w, j, n - 1) + StreamBit(data, w, j + n - 1)

\* The reference regrouping: ceil(n * fromBits / toBits) groups of toBits bits.
Regroup(data, fromBits, toBits) ==
    [k \in 1..((Len(data) * fromBits + toBits - 1) \div toBits) |->
        StreamValue(data, fromBits, (k - 1) * toBits + 1, toBits)]

Expected(data, fromBits, toBits) ==
    IF \A k \in 1..Len(data) : Fits(data[k], fromBits)
    THEN Some(Regroup(data, fromBits, toBits))
    ELSE Null

C9_RoundTrip ==
    (pc = "back" /\ \A k \in 1..Len(input.data) : Fits(input.data[k], 8))
        => ret = Some([k \in 1..Len(input.data) |-> input.data[k].lo])

\* A decode of bytes whose encoding ended in four padding bits.
C9_Witness ==
    /\ pc = "back" /\ ret.ok /\ Len(ret.val) = 2 /\ Len(input.data) = 2
    /\ ret.val[2] = 255

-----------------------------------------------------------------------------
(* Specification SpecAddr: kaspaEncodePubKeyAddress applied to a public key *)
(* with one prefix, then to the same key with another prefix.               *)

MaxMul == 1       \* largest multiplier in the family of X coordinates

\* The X coordinate of the public key inside the kpub of the test script
\* (unnamed/part_000).
TestKeyX ==
    << 43, 189,  51, 208, 254, 163,  44, 230, 156, 101,  33, 167,  74,  56, 130, 215,
       21, 171,  35, 188, 193,  70, 196,  33, 197,  88, 140,  30, 242,  84,  85, 178>>

\* 32-byte strings k |-> a * k + b, and the test key.
XCoords ==
    {[k \in 1..32 |-> (a * k + b) % 256] : a \in 0..MaxMul, b \in {0, 255}}
        \cup {TestKeyX}

\* 33-byte keys: compressed (first byte 2 or 3) and not (first byte 4, and 32,
\* whose hex digits are 20).
PubKeys == {<<f>> \o x : f \in {2, 3, 4, 32}, x \in XCoords}

Prefixes == {<<"k","a","s","p","a">>,
             <<"k","a","s","p","a","t","e","s","t">>,
             <<"k","a","s","p","a","d","e","v">>,
             <<"b","c">>,
             <<>>}

InitAddr ==
    /\ op = "kaspaEncodePubKeyAddress"
    /\ input \in [pubKey : PubKeys, prefix : Prefixes]
    /\ pc = "call"
    /\ ret = <<>>

\* ret = <<kaspaEncodePubKeyAddress(pubKey, prefix)>>
EncodeCall ==
    /\ op = "kaspaEncodePubKeyAddress" /\ pc = "call"
    /\ ret' = <<kaspaEncodePubKeyAddress(input.pubKey, input.prefix)>>
    /\ pc' = "done"
    /\ UNCHANGED <<op, input>>

\* A second call on the same key with any prefix; both results are kept.
EncodeAgain ==
    /\ op = "kaspaEncodePubKeyAddress" /\ pc = "done"
    /\ \E prefix2 \in Prefixes :
          ret' = Append(ret, kaspaEncodePubKeyAddress(input.pubKey, prefix2))
    /\ pc' = "again"
    /\ UNCHANGED <<op, input>>

NextAddr == EncodeCall \/ EncodeAgain

SpecAddr == InitAddr /\ [][NextAddr]_vars

CharsetSet == {CHARSET[k] : k \in 1..Len(CHARSET)}

\* C1: for a 33-byte key whose first byte is 2 or 3 and any prefix, the result is
\* 67 characters: 'kaspa:' and 61 characters of the alphabet.
C1_AddressShape ==
    (op = "kaspaEncodePubKeyAddress" /\ input.pubKey[1] \in {2, 3})
        => \A n \in 1..Len(ret) :
              /\ ret[n].ok
              /\ Len(ret[n].val) = 67
              /\ SubSeq(ret[n].val, 1, 6) = KaspaLabel
              /\ \A k \in 7..67 : ret[n].val[k] \in CharsetSet

\* The test key encoded under the prefix 'kaspa'.
C1_Witness ==
    /\ pc = "done" /\ input.pubKey = <<3>> \o TestKeyX
    /\ input.prefix = <<"k","a","s","p","a">>
    /\ ret[1].ok /\ Len(ret[1].val) = 67

\* The first sentence of C6: two results for one key agree on the label and on
\* the 53 payload characters, whatever the two prefixes.
EncoderPrefixOnlyInChecksum ==
    (op = "kaspaEncodePubKeyAddress" /\ pc = "again")
        => /\ SubSeq(ret[1].val, 1, 6) = KaspaLabel
           /\ SubSeq(ret[2].val, 1, 6) = KaspaLabel
           /\ SubSeq(ret[1].val, 1, Len(ret[1].val) - 8)
                 = SubSeq(ret[2].val, 1, Len(ret[2].val) - 8)

\* The key without its flag byte 02 or 03; a key with another first byte has no
\* flag byte.
WithoutFlagByte(pubKey) ==
    IF pubKey[1] \in {2, 3} THEN SubSeq(pubKey, 2, Len(pubKey)) ELSE pubKey

\* The composition that builds an address, step by step.
AddressPayload(pubKey) ==
    convertBits(Numbers(<<0>> \o WithoutFlagByte(pubKey)), 8, 5, TRUE).val
PrefixSymbols(prefix) == [k \in 1..Len(prefix) |-> CharCode(prefix[k]) % 32]
AddressChecksum(pubKey, prefix) ==
    polymod(PrefixSymbols(prefix) \o <<0>> \o AddressPayload(pubKey)
              \o <<0, 0, 0, 0, 0, 0, 0, 0>>)
BodySymbols(pubKey, prefix) ==
    AddressPayload(pubKey) \o checksumToArray(AddressChecksum(pubKey, prefix))

\* C18: the address is 'kaspa:' followed by the alphabet characters of
\* payload ++ checksumToArray(checksum), where payload is convertBits of 0x00
\* and the key without its flag byte from 8 to 5 bits with padding, and the
\* checksum is polymod of the prefix's character codes AND 31, a 0, the payload
\* and eight zeros, in that order.
C18_Composition ==
    (op = "kaspaEncodePubKeyAddress" /\ pc # "call") =>
        /\ ret[1].ok
        /\ ret[1].val = KaspaLabel \o
              With(BodySymbols(input.pubKey, input.prefix),
                   LAMBDA body : [k \in 1..Len(body) |-> CHARSET[body[k] + 1]])

\* The test key with flag byte 03 under the prefix kaspatest: 53 payload symbols
\* and 8 checksum symbols, and a checksum that the prefix takes part in.
C18_Witness ==
    /\ op = "kaspaEncodePubKeyAddress" /\ pc = "done"
    /\ input.pubKey = <<3>> \o TestKeyX
    /\ input.prefix = <<"k","a","s","p","a","t","e","s","t">>
    /\ Len(AddressPayload(input.pubKey)) = 53
    /\ Len(ret[1].val) = 67
    /\ AddressChecksum(input.pubKey, input.prefix)
          # AddressChecksum(input.pubKey, <<"k","a","s","p","a">>)
    /\ SubSeq(ret[1].val, 60, 67)
          = With(checksumToArray(AddressChecksum(input.pubKey, input.prefix)),
                 LAMBDA digits : [k \in 1..8 |-> CHARSET[digits[k] + 1]])

\* The body of an address: the characters after 'kaspa:'.
AddressBody(address) == SubSeq(address, 7, Len(address))

\* C21: for every 32-byte X and every prefix the keys 02 X and 03 X have the
\* same address, with a body of 61 characters; a 33-byte key with another first
\* byte is encoded with all its bytes: its body is longer than 61 characters
\* and starts with the characters of convertBits of 0x00 and the 33 bytes.
C21_OnlyXCoordinate ==
    (op = "kaspaEncodePubKeyAddress" /\ pc # "call") =>
        LET flag == input.pubKey[1]
            X    == SubSeq(input.pubKey, 2, Len(input.pubKey))
        IN  /\ flag \in {2, 3} =>
                /\ ret[1] = kaspaEncodePubKeyAddress(<<5 - flag>> \o X, input.prefix)
                /\ Len(AddressBody(ret[1].val)) = 61
            /\ flag \notin {2, 3} =>
                /\ Len(AddressBody(ret[1].val)) > 61
                /\ With(convertBits(Numbers(<<0>> \o input.pubKey), 8, 5, TRUE).val,
                        LAMBDA all : SubSeq(AddressBody(ret[1].val), 1, Len(all))
                                       = [k \in 1..Len(all) |-> CHARSET[all[k] + 1]])

\* The test key under flag byte 03 has the address of the test key under flag
\* byte 02.
C21_Witness ==
    /\ op = "kaspaEncodePubKeyAddress" /\ pc = "done"
    /\ input.pubKey = <<3>> \o TestKeyX
    /\ input.prefix = <<"k","a","s","p","a">>
    /\ ret[1].ok
    /\ ret[1] = kaspaEncodePubKeyAddress(<<2>> \o TestKeyX, input.prefix)
    /\ ret[1] # kaspaEncodePubKeyAddress(<<32>> \o TestKeyX, input.prefix)

\* The test key under first byte 0x20: no flag byte, a body of 63 characters.
C21_WholeKey ==
    /\ op = "kaspaEncodePubKeyAddress" /\ pc = "done"
    /\ input.pubKey = <<32>> \o TestKeyX
    /\ Len(AddressBody(ret[1].val)) = 63

-----------------------------------------------------------------------------
(* Specification SpecPoly: polymod applied to a sequence of 5-bit symbols   *)
(* and to the same sequence with one symbol replaced.                       *)

MaxPolyLen == 12  \* longest symbol sequence handed to polymod directly

\* Sequences k |-> (a * k + b) mod 32 of 1..MaxPolyLen symbols.
PolySeqs ==
    {[k \in 1..n |-> (a * k + b) % 32] :
        n \in 1..MaxPolyLen, a \in 0..MaxMul, b \in {0, 1, 31}}

InitPoly ==
    /\ op = "polymod"
    /\ input \in {[data |-> d, pos |-> p, sym |-> v] :
                    d \in PolySeqs, p \in 1..MaxPolyLen, v \in 0..31}
    /\ input.pos <= Len(input.data)
    /\ pc = "call"
    /\ ret = <<>>

\* ret = <<polymod(data)>>
PolymodCall ==
    /\ op = "polymod" /\ pc = "call"
    /\ ret' = <<polymod(input.data)>>
    /\ pc' = "done"
    /\ UNCHANGED <<op, input>>

\* A second call on data with data[pos] replaced by sym; both results are kept.
PolymodEdited ==
    /\ op = "polymod" /\ pc = "done"
    /\ ret' = Append(ret, polymod([input.data EXCEPT ![input.pos] = input.sym]))
    /\ pc' = "edited"
    /\ UNCHANGED <<op, input>>

NextPoly == PolymodCall \/ PolymodEdited

SpecPoly == InitPoly /\ [][NextPoly]_vars

\* C10: two sequences of 5-bit symbols of equal length that differ in exactly one
\* position have different polymod values.
C10_SingleEditChanges ==
    (op = "polymod" /\ pc = "edited" /\ input.sym # input.data[input.pos])
        => ret[1] # ret[2]

\* An edit of the first of more than eight symbols, so that the edited symbol has
\* passed through the feedback of the generator.
C10_Witness ==
    /\ op = "polymod" /\ pc = "edited"
    /\ Len(input.data) > 8 /\ input.pos = 1
    /\ input.sym # input.data[1]
    /\ ret[1].hi # ret[2].hi

\* The reference computation on one 40-bit number, held as two 20-bit halves
\* <<hi, lo>>: XOR bit by bit, the five generator constants, and the step
\* t = c >> 35, c = ((c mod 2^35) << 5) XOR d, then the constants of the set
\* bits of t.
RECURSIVE RefXor(_, _, _)
RefXor(a, b, bits) ==
    IF bits = 0 THEN 0
    ELSE ((a + b) % 2) + 2 * RefXor(a \div 2, b \div 2, bits - 1)

RefGenerator == <<<<626475, 822881>>,        \* 0x98f2bc8e61
                  <<498550, 891362>>,        \* 0x79b76d99e2
                  <<996325, 1029060>>,       \* 0xf33e5fb3c4
                  <<713450, 778920>>,        \* 0xae2eabe2a8
                  <<124148, 255088>>>>       \* 0x1e4f43e470

RECURSIVE RefFeedback(_, _, _)
RefFeedback(c, t, i) ==
    IF i > 5 THEN c
    ELSE RefFeedback(IF (t \div Pow2(i - 1)) % 2 = 1
                     THEN <<RefXor(c[1], RefGenerator[i][1], 20),
                            RefXor(c[2], RefGenerator[i][2], 20)>>
                     ELSE c, t, i + 1)

RefStep(c, d) ==
    LET t       == c[1] \div 32768
        shifted == <<(c[1] % 32768) * 32 + c[2] \div 32768,
                     RefXor((c[2] % 32768) * 32, d, 20)>>
    IN  RefFeedback(shifted, t, 1)

RECURSIVE RefLoop(_, _, _)
RefLoop(c, data, j) ==
    IF j > Len(data) THEN c ELSE RefLoop(RefStep(c, data[j]), data, j + 1)

RefPolymod(data) ==
    LET c == RefLoop(<<0, 1>>, data, 1)
    IN  [hi |-> c[1], lo |-> RefXor(c[2], 1, 20), e |-> 0]

\* C17: on every sequence of 5-bit symbols polymod returns the value of the
\* reference 40-bit computation, a non-negative integer below 2^40, also when
\* the low word ends with its sign bit set.
C17_MatchesReference ==
    (op = "polymod" /\ pc = "edited") =>
        /\ ret[1] = RefPolymod(input.data)
        /\ ret[2] = RefPolymod([input.data EXCEPT ![input.pos] = input.sym])
        /\ \A k \in 1..2 : /\ ret[k].hi \in 0..Limb - 1
                           /\ ret[k].lo \in 0..Limb - 1
                           /\ ret[k].e = 0

\* More than eight symbols, so that the feedback has acted; bit 31 of the
\* result (the sign bit of the low word) is set and the high word is not zero.
C17_Witness ==
    /\ op = "polymod" /\ pc = "edited"
    /\ Len(input.data) > 8
    /\ (ret[1].hi \div 2048) % 2 = 1
    /\ ret[1].hi >= 4096
    /\ ret[1] = RefPolymod(input.data)

-----------------------------------------------------------------------------
(* Specification SpecKey: the key functions applied to the keys of the      *)
(* model and to values that are no strings.                                 *)

MaxStart == 1     \* largest startIndex
MaxCount == 2     \* largest count

KeyValues == {JsString(KeyStrings[k]) : k \in 1..Len(KeyStrings)}
                \cup {JsNull, JsUndefined, JsNumber}

\* A mnemonic of n one-letter words separated by single spaces.
Words(n) == [k \in 1..2 * n - 1 |-> IF k % 2 = 1 THEN "a" ELSE " "]

Mnemonics == {JsNull, JsString(<<>>), JsString(Words(3)), JsString(Words(12)),
              JsString(Words(24))}

Args(keys, starts, counts, mnemonics) ==
    [extendedKey : keys, startIndex : starts, count : counts, mnemonic : mnemonics]

InitKey ==
    /\ pc = "call"
    /\ ret = Null
    /\ \/ /\ op \in {"detectKPUBFormat", "convertKaspiumKPUBToStandard"}
          /\ input \in Args(KeyValues, {0}, {0}, {JsNull})
       \/ /\ op = "detectWalletType"
          /\ input \in Args(KeyValues, {0}, {0}, Mnemonics)
       \/ /\ op = "generateAddressesFromAnyKPUB"
          /\ input \in Args(KeyValues, -1..MaxStart, -1..MaxCount, Mnemonics)
                         \cup Args(KeyValues, {MaxInt32}, 1..MaxCount, {JsNull})

DetectFormatCall ==
    /\ op = "detectKPUBFormat" /\ pc = "call"
    /\ ret' = detectKPUBFormat(input.extendedKey)
    /\ pc' = "done"
    /\ UNCHANGED <<op, input>>

DetectWalletCall ==
    /\ op = "detectWalletType" /\ pc = "call"
    /\ ret' = detectWalletType(input.extendedKey, input.mnemonic)
    /\ pc' = "done"
    /\ UNCHANGED <<op, input>>

ConvertCall ==
    /\ op = "convertKaspiumKPUBToStandard" /\ pc = "call"
    /\ ret' = convertKaspiumKPUBToStandard(input.extendedKey)
    /\ pc' = "done"
    /\ UNCHANGED <<op, input>>

\* The promise settles: fulfilled with the result (ok) or rejected with the error.
GenerateCall ==
    /\ op = "generateAddressesFromAnyKPUB" /\ pc = "call"
    /\ ret' = generateAddressesFromAnyKPUB(input.extendedKey, input.startIndex,
                                           input.count, input.mnemonic)
    /\ pc' = "done"
    /\ UNCHANGED <<op, input>>

NextKey == DetectFormatCall \/ DetectWalletCall \/ ConvertCall \/ GenerateCall

SpecKey == InitKey /\ [][NextKey]_vars

\* The input key is a string, and its Base58Check payload (Null when it has none).
IsKeyString == input.extendedKey.type = "string"
Payload == IF IsKeyString THEN base58checkDecode(input.extendedKey.str) ELSE Null

\* The version bytes of the payload, <<>> when the payload is shorter.
PayloadVersion ==
    IF Payload.ok /\ Len(Payload.val) >= 4 THEN SubSeq(Payload.val, 1, 4) ELSE <<>>

ConvertDone  == op = "convertKaspiumKPUBToStandard" /\ pc = "done"
GenerateDone == op = "generateAddressesFromAnyKPUB" /\ pc = "done"

\* A 78-byte payload is an extended public key: its key material is a compressed
\* curve point, and at depth 0 it names no parent and no child number.
IsExtendedPublicKey(b) ==
    /\ SubSeq(b, 46, 78) \in CurvePoints
    /\ b[5] = 0 => SubSeq(b, 6, 13) = <<0, 0, 0, 0, 0, 0, 0, 0>>

ConvertError(msg) == <<"Failed to convert Kaspium KPUB to standard format", msg>>

\* C2: for a 78-byte payload under the version bytes 03 8f 33 2e,
\* convertKaspiumKPUBToStandard returns a string for every valid extended public
\* key, and a string it returns decodes to 78 bytes that carry 04 88 b2 1e at
\* offset 0 and the input's bytes at offsets 4..77: only the version bytes differ.
C2_OnlyVersionChanges ==
    (ConvertDone /\ Payload.ok /\ Len(Payload.val) = 78
        /\ PayloadVersion = <<3, 143, 51, 46>>)
    => /\ IsExtendedPublicKey(Payload.val) => ret.ok
       /\ ret.ok =>
            LET out == base58checkDecode(ret.val)
            IN  /\ out.ok /\ Len(out.val) = 78
                /\ SubSeq(out.val, 1, 4) = <<4, 136, 178, 30>>
                /\ \A k \in 5..78 : out.val[k] = Payload.val[k]

\* The kpub of the test script converts to the same fields under the xpub tag.
C2_Witness ==
    /\ ConvertDone /\ input.extendedKey = JsString(KpubTest)
    /\ ret = Return(XpubTest)

\* C3: convertKaspiumKPUBToStandard returns no string when the decoded version
\* bytes are not 03 8f 33 2e, and on a 78-byte key the error is the version
\* mismatch 'Not a valid Kaspium KPUB'; this covers the tag 04 88 b2 1e.
C3_VersionMismatch ==
    (ConvertDone /\ Payload.ok /\ PayloadVersion # <<3, 143, 51, 46>>)
    => /\ ~ret.ok
       /\ Len(Payload.val) = 78 => ret.err = ConvertError("Not a valid Kaspium KPUB")

\* A standard xpub handed to the conversion is refused for its version bytes.
C3_Witness ==
    /\ ConvertDone /\ input.extendedKey = JsString(XpubTest)
    /\ PayloadVersion = <<4, 136, 178, 30>>
    /\ ret = Throw(ConvertError("Not a valid Kaspium KPUB"))

\* C4: a key whose version bytes are 03 8f 2e f4 or 04 88 ad e4 makes
\* convertKaspiumKPUBToStandard fail and generateAddressesFromAnyKPUB reject: no
\* converted key and no addresses come back.
C4_PrivateTagRejected ==
    (pc = "done" /\ PayloadVersion \in {<<3, 143, 46, 244>>, <<4, 136, 173, 228>>}
        /\ op \in {"convertKaspiumKPUBToStandard", "generateAddressesFromAnyKPUB"})
    => ~ret.ok

\* A standard extended private key, asked for two addresses from index 0.
C4_Witness ==
    /\ GenerateDone /\ input.extendedKey = JsString(XprvPriv)
    /\ input.startIndex = 0 /\ input.count = 2
    /\ PayloadVersion = <<4, 136, 173, 228>>
    /\ ~ret.ok

\* C5: detectKPUBFormat answers 'kaspium', 'standard' or 'testnet' for a string
\* whose first four characters are kpub, xpub or tpub, and throws for every
\* other string and for every value that is no string.
C5_ClassifiedByPrefix ==
    (op = "detectKPUBFormat" /\ pc = "done")
    => LET s    == input.extendedKey.str
           head == IF IsKeyString /\ Len(s) >= 4 THEN <<s[1], s[2], s[3], s[4]>> ELSE <<>>
       IN  IF head = <<"k", "p", "u", "b">> THEN ret = Return("kaspium")
           ELSE IF head = <<"x", "p", "u", "b">> THEN ret = Return("standard")
           ELSE IF head = <<"t", "p", "u", "b">> THEN ret = Return("testnet")
           ELSE ~ret.ok

\* The bare prefix tpub is classified, whatever follows it.
C5_Witness ==
    /\ op = "detectKPUBFormat" /\ pc = "done"
    /\ input.extendedKey = JsString(<<"t", "p", "u", "b">>)
    /\ ret = Return("testnet")

\* C6 (its last sentence): generateAddressesFromAnyKPUB on a valid tpub key, asked
\* for at least one address from a non-negative index, returns addresses, and
\* each begins with 'kaspa:'.
C6_TpubAddresses ==
    (GenerateDone /\ Payload.ok /\ Len(Payload.val) = 78
        /\ PayloadVersion = <<4, 53, 135, 207>> /\ IsExtendedPublicKey(Payload.val)
        /\ input.startIndex >= 0 /\ input.count >= 1)
    => /\ ret.ok
       /\ \A k \in 1..Len(ret.val.addresses) :
              StartsWith(ret.val.addresses[k].address, <<"k", "a", "s", "p", "a", ":">>)

\* What the program does on that key: HDKey.fromExtendedKey refuses the version.
C6_Witness ==
    /\ GenerateDone /\ input.extendedKey = JsString(TpubTest)
    /\ input.startIndex = 0 /\ input.count = 1
    /\ ret = Throw(<<"Version mismatch">>)

\* C7: convertKaspiumKPUBToStandard returns a string only when the input is a
\* string that Base58Check-decodes to exactly 78 bytes; a payload of any other
\* length is refused with 'Invalid KPUB length'.
C7_LengthIs78 ==
    ConvertDone
    => /\ ret.ok => Payload.ok /\ Len(Payload.val) = 78
       /\ (Payload.ok /\ Len(Payload.val) # 78)
            => ret.err = ConvertError("Invalid KPUB length")

\* A kpub payload of 79 bytes is refused for its length.
C7_Witness ==
    /\ ConvertDone /\ input.extendedKey = JsString(Long79)
    /\ Payload.ok /\ Len(Payload.val) = 79
    /\ ret = Throw(ConvertError("Invalid KPUB length"))

\* The entries of a fulfilled generateAddressesFromAnyKPUB call are numbered from
\* startIndex on, each with its path and the watch-only flag.
NumberedFromStart ==
    \A k \in 1..Len(ret.val.addresses) :
        /\ ret.val.addresses[k].index = input.startIndex + k - 1
        /\ ret.val.addresses[k].path = <<"m/0/", input.startIndex + k - 1>>
        /\ ret.val.addresses[k].isWatchOnly

\* C12 as stated: every fulfilled generateAddressesFromAnyKPUB call has exactly
\* count entries, numbered startIndex..startIndex+count-1 in ascending order with
\* path 'm/0/<index>' and isWatchOnly true, and totalGenerated is the number of
\* entries.
C12_CountEntries ==
    (GenerateDone /\ ret.ok)
    => /\ Len(ret.val.addresses) = input.count
       /\ NumberedFromStart
       /\ ret.val.totalGenerated = Len(ret.val.addresses)

\* The same for a count that is not negative.
C12_NonNegativeCount ==
    (GenerateDone /\ ret.ok /\ input.count >= 0)
    => /\ Len(ret.val.addresses) = input.count
       /\ NumberedFromStart
       /\ ret.val.totalGenerated = Len(ret.val.addresses)

\* A fulfilled call with count -1: no entry, and totalGenerated is -1.
C12_Witness ==
    /\ GenerateDone /\ ret.ok
    /\ input.extendedKey = JsString(KpubTest) /\ input.count = -1
    /\ ret.val.addresses = <<>>
    /\ ret.val.totalGenerated = -1

\* C20: on a 78-byte payload under the Kaspium version bytes, whatever the
\* first byte of the key material, the conversion re-serializes the payload
\* under the xpub version bytes and hands the string to HDKey.fromExtendedKey:
\* it returns that string iff the parser accepts it and yields a public key,
\* and otherwise fails with the parser's error under 'Converted XPUB is
\* invalid'.
C20_ParserDecides ==
    (ConvertDone /\ Payload.ok /\ Len(Payload.val) = 78
        /\ PayloadVersion = KASPA_MAINNET_PUBLIC_BYTES) =>
        LET convertedXpub == base58checkEncode(BITCOIN_MAINNET_PUBLIC_BYTES
                                                 \o SubSeq(Payload.val, 5, 78))
            testKey       == HDKeyFromExtendedKey(convertedXpub)
        IN  /\ ret.ok <=> (testKey.ok /\ testKey.val.publicKey # <<>>)
            /\ ret.ok => ret.val = convertedXpub
            /\ ~ret.ok => ret.err = ConvertError("Converted XPUB is invalid")
                                       \o testKey.err

\* Key material 04 and the X of the test key: the conversion reaches the parser
\* and fails there.
C20_Witness ==
    /\ ConvertDone
    /\ input.extendedKey = JsString(KpubBad04)
    /\ Payload.val[46] = 4
    /\ ~ret.ok
    /\ SubSeq(ret.err, 1, 2) = ConvertError("Converted XPUB is invalid")
    /\ ~HDKeyFromExtendedKey(XpubBad04).ok

-----------------------------------------------------------------------------
(* Specification SpecCodec: b58c.decode and b58c.encode computed on every   *)
(* string of the model, against the table DecodedKeys.                      *)

InitCodec ==
    /\ op = "b58c" /\ pc = "call" /\ ret = Null
    /\ input \in 1..Len(KeyStrings)

CodecDecode ==
    /\ op = "b58c" /\ pc = "call"
    /\ ret' = b58cDecode(KeyStrings[input])
    /\ pc' = "decoded"
    /\ UNCHANGED <<op, input>>

CodecEncode ==
    /\ op = "b58c" /\ pc = "decoded" /\ ret.ok
    /\ ret' = b58cEncode(ret.val)
    /\ pc' = "encoded"
    /\ UNCHANGED <<op, input>>

NextCodec == CodecDecode \/ CodecEncode

SpecCodec == InitCodec /\ [][NextCodec]_vars

\* The table holds what decode computes, and encode takes each payload back to
\* its string.
CodecTable ==
    /\ (op = "b58c" /\ pc = "decoded") => ret = DecodedKeys[input]
    /\ (op = "b58c" /\ pc = "encoded") => ret = KeyStrings[input]

-----------------------------------------------------------------------------
(* Specification SpecSum: checksumToArray applied to integers below 2^40.   *)

MaxOffset == 1    \* how far above a power of two, less one, the limbs are drawn

\* Values of a 20-bit limb: around every power of two, and the largest.
LimbValues ==
    {v \in {Pow2(j) - 1 + o : j \in 0..20, o \in 0..MaxOffset} : v < Limb}

InitSum ==
    /\ op = "checksumToArray"
    /\ input \in [hi : LimbValues, lo : LimbValues, e : {0}]
    /\ pc = "call"
    /\ ret = <<>>

ChecksumToArrayCall ==
    /\ op = "checksumToArray" /\ pc = "call"
    /\ ret' = checksumToArray(input)
    /\ pc' = "done"
    /\ UNCHANGED <<op, input>>

NextSum == ChecksumToArrayCall

SpecSum == InitSum /\ [][NextSum]_vars

\* C11: for c = hi * 2^20 + lo below 2^40, checksumToArray(c) is 8 symbols in
\* 0..31, most significant first, with d0*32^7 + ... + d7 = c: the first four
\* digits are the base-32 digits of hi and the last four those of lo.
C11_EightDigits ==
    (op = "checksumToArray" /\ pc = "done")
    => /\ Len(ret) = 8
       /\ \A k \in 1..8 : ret[k] \in 0..31
       /\ ret[1] * 32768 + ret[2] * 1024 + ret[3] * 32 + ret[4] = input.hi
       /\ ret[5] * 32768 + ret[6] * 1024 + ret[7] * 32 + ret[8] = input.lo

\* A value above 2^32 whose digits are not all equal: hi and lo both non-zero and
\* the top digit set.
C11_Witness ==
    /\ op = "checksumToArray" /\ pc = "done"
    /\ input.hi >= 32768 /\ input.lo = 63
    /\ ret[1] # 0 /\ ret[7] = 1 /\ ret[8] = 31

-----------------------------------------------------------------------------
(* Specification SpecTwo: generateAddressesFromAnyKPUB called twice, one    *)
(* call after the other has settled.  ret is the list of the results.       *)

\* A kpub, its conversion, and an xpub with the same chain code and key under
\* another depth, fingerprint and child number.
TwoKeys == {JsString(KpubTest), JsString(XpubTest), JsString(XpubTestMeta)}

\* Keys that fail: in classification, in conversion, in parsing.
FailingKeys == {JsNull, JsString(KpubBad04), JsString(KpubBadChecksum),
                JsString(XpubBad04)}

\* One address and MaxCount addresses from index 0 and from index MaxStart, the
\* counts that cross the first hardened index 2^31, and one call for each
\* failing key.
TwoArgs == Args(TwoKeys, {0, MaxStart}, {1, MaxCount}, {JsNull})
             \cup Args(TwoKeys, {MaxInt32}, {MaxCount}, {JsNull})
             \cup Args(FailingKeys, {0}, {1}, {JsNull})

InitTwo ==
    /\ op = "twoCalls"
    /\ input \in [first : TwoArgs, second : TwoArgs]
    /\ pc = "call"
    /\ ret = <<>>

\* await generateAddressesFromAnyKPUB(...): the first call, then the second.
AwaitCall ==
    /\ op = "twoCalls" /\ pc \in {"call", "first"}
    /\ LET a == IF pc = "call" THEN input.first ELSE input.second
       IN  ret' = Append(ret, generateAddressesFromAnyKPUB(a.extendedKey,
                                a.startIndex, a.count, a.mnemonic))
    /\ pc' = IF pc = "call" THEN "first" ELSE "done"
    /\ UNCHANGED <<op, input>>

NextTwo == AwaitCall

SpecTwo == InitTwo /\ [][NextTwo]_vars

TwoDone == op = "twoCalls" /\ pc = "done"

\* The entries of the two results, none for a failed call.
EntriesOf(r) == IF r.ok THEN {r.val.addresses[k] : k \in 1..Len(r.val.addresses)}
                ELSE {}

-----------------------------------------------------------------------------
(* Specification SpecApi: the module is loaded under its build-time flags   *)
(* and a caller resolves one name on window.kaspaWallet or by an import of  *)
(* the module (index.js 5, 567-689, 691-702).  A function is the string of  *)
(* its name; a function expression is named after its key.                  *)

\* const publicApi = { ... }
PublicApi ==
    [generateAddressesUniversal |-> "generateAddressesFromAnyKPUB",
     detectKPUBFormat           |-> "detectKPUBFormat",
     detectWalletType           |-> "detectWalletType",
     convertKaspiumKPUB         |-> "convertKaspiumKPUBToStandard",
     encodeAddress              |-> "kaspaEncodePubKeyAddress"]

\* The object assigned to publicApi under EXPOSE_SENSITIVE.
SensitiveApi ==
    [generate                   |-> "generateKaspaWallet",
     generateKPUB               |-> "generateKPUBFromMnemonic",
     generateKaspiumKPUB        |-> "generateKaspiumCompatibleKPUB",
     generateKPUBForWallet      |-> "generateKPUBForWallet",
     generateAddressesForWallet |-> "generateAddressesForWallet",
     test                       |-> "function test",
     testWalletCompatibility    |-> "function testWalletCompatibility",
     testRealWorldScenario      |-> "function testRealWorldScenario"]

\* publicApi.version and publicApi.mode
VersionInfo(exposeSensitive) ==
    [version |-> "1.0.1",
     mode    |-> IF exposeSensitive THEN "development" ELSE "production"]

\* window.kaspaWallet after the module body ran; no property without a window.
WindowKaspaWallet(exposeSensitive, hasWindow) ==
    IF ~hasWindow THEN <<>>
    ELSE VersionInfo(exposeSensitive)
           @@ (IF exposeSensitive THEN SensitiveApi ELSE <<>>) @@ PublicApi

\* export { ... }
Exports ==
    {"generateKaspaWallet", "generateKPUBFromMnemonic",
     "generateKaspiumCompatibleKPUB", "generateKPUBForWallet",
     "generateAddressesFromAnyKPUB", "generateAddressesForWallet",
     "detectKPUBFormat", "detectWalletType", "convertKaspiumKPUBToStandard",
     "kaspaEncodePubKeyAddress"}

\* The names a caller asks for: every key and every function of the module.
ApiNames == DOMAIN PublicApi \cup DOMAIN SensitiveApi \cup {"version", "mode"}
              \cup Exports \cup {"polymod", "base58checkDecode"}

InitApi ==
    /\ op = "module"
    /\ input \in [EXPOSE_SENSITIVE : BOOLEAN, window : BOOLEAN,
                  via : {"window", "import"}, name : ApiNames]
    /\ pc = "call"
    /\ ret = <<>>

\* The module body runs.
LoadModule ==
    /\ op = "module" /\ pc = "call"
    /\ ret' = [kaspaWallet |-> WindowKaspaWallet(input.EXPOSE_SENSITIVE, input.window),
               exports     |-> Exports]
    /\ pc' = "loaded"
    /\ UNCHANGED <<op, input>>

\* window.kaspaWallet[name], or import { name } from the module.
ResolveName ==
    /\ op = "module" /\ pc = "loaded"
    /\ ret' = [kaspaWallet |-> ret.kaspaWallet,
               exports     |-> ret.exports,
               value       |-> IF input.via = "window"
                               THEN IF input.name \in DOMAIN ret.kaspaWallet
                                    THEN ret.kaspaWallet[input.name]
                                    ELSE "undefined"
                               ELSE IF input.name \in ret.exports
                                    THEN input.name ELSE "undefined"]
    /\ pc' = "done"
    /\ UNCHANGED <<op, input>>

NextApi == LoadModule \/ ResolveName

SpecApi == InitApi /\ [][NextApi]_vars

\* The functions that generate a wallet, take a mnemonic or return a private key.
SensitiveFunctions ==
    {"generateKaspaWallet", "generateKPUBFromMnemonic",
     "generateKaspiumCompatibleKPUB", "generateKPUBForWallet",
     "generateAddressesForWallet"}

Resolved == op = "module" /\ pc = "done"

\* C14: in a production build (EXPOSE_SENSITIVE false) no name resolves to a
\* function that generates a wallet, takes a mnemonic or returns a private key,
\* neither on window.kaspaWallet nor through the module's exports.
C14_ProductionSurface ==
    (Resolved /\ ~input.EXPOSE_SENSITIVE) => ret.value \notin SensitiveFunctions

\* The part that holds: on window.kaspaWallet of a production build every
\* property is one of the five watch-only functions or the version information.
C14_WindowSurface ==
    (Resolved /\ ~input.EXPOSE_SENSITIVE /\ input.via = "window") =>
        /\ ret.value \notin SensitiveFunctions
        /\ DOMAIN ret.kaspaWallet \subseteq DOMAIN PublicApi \cup {"version", "mode"}

C14_Witness ==
    /\ Resolved /\ ~input.EXPOSE_SENSITIVE /\ input.window
    /\ input.via = "import" /\ input.name = "generateKaspaWallet"
    /\ "generate" \notin DOMAIN ret.kaspaWallet
    /\ ret.value = "generateKaspaWallet"

\* The index of iteration k (from 0) of a call, and its derivation from the
\* parsed key: m/0, then the index.
LoopIndex(a, k) == NumAdd(Num(a.startIndex), Num(k))
DeriveIndex(hdKey, i) ==
    With(deriveChild(hdKey, Num(0)),
         LAMBDA externalChain : IF ~externalChain.ok THEN externalChain
                                ELSE deriveChild(externalChain.val, i))

\* Some step of the call with arguments a fails: classification, conversion,
\* parsing, or the derivation of one of its indices.
SomeStepFails(a) ==
    LET walletInfo  == detectWalletType(a.extendedKey, a.mnemonic)
        workingXpub == IF walletInfo.val.format = "kpub"
                       THEN convertKaspiumKPUBToStandard(a.extendedKey)
                       ELSE Return(a.extendedKey.str)
        hdKey       == HDKeyFromExtendedKey(workingXpub.val)
    IN  \/ ~walletInfo.ok
        \/ ~workingXpub.ok
        \/ ~hdKey.ok
        \/ \E k \in 0..a.count - 1 : ~DeriveIndex(hdKey.val, LoopIndex(a, k)).ok

\* C15: a call in which classification, conversion, parsing or the derivation
\* of any index fails is rejected and returns no address at all, and the call
\* made after a failed call returns what it returns on its own.
C15_AllOrNothing ==
    TwoDone =>
        /\ SomeStepFails(input.first) => ~ret[1].ok /\ ret[1].val = <<>>
        /\ SomeStepFails(input.second) => ~ret[2].ok /\ ret[2].val = <<>>
        /\ ~ret[1].ok =>
              ret[2] = generateAddressesFromAnyKPUB(input.second.extendedKey,
                          input.second.startIndex, input.second.count,
                          input.second.mnemonic)

\* The first call derives index 2^31 - 1 and fails at index 2^31; the second
\* call, on another key, succeeds.
C15_Witness ==
    /\ TwoDone
    /\ input.first.extendedKey = JsString(XpubTest)
    /\ input.first.startIndex = MaxInt32 /\ input.first.count >= 2
    /\ DeriveIndex(HDKeyFromExtendedKey(XpubTest).val, Num(MaxInt32)).ok
    /\ ~ret[1].ok /\ ret[1].err = <<"Could not derive hardened child key">>
    /\ input.second.extendedKey = JsString(XpubTestMeta)
    /\ input.second.startIndex = 0
    /\ ret[2].ok /\ Len(ret[2].val.addresses) = input.second.count

\* The chain code and the key material of the payload of a key string.
KeyMaterial(str) == SubSeq(base58checkDecode(str).val, 14, 78)

\* The address strings and the public keys of a result, index by index.
AddressesOf(r) ==
    [k \in 1..Len(r.val.addresses) |->
        <<r.val.addresses[k].index, r.val.addresses[k].address,
          r.val.addresses[k].publicKey>>]

\* C16: for a valid kpub K, the call on K and the call with the same start and
\* count on the converted key, or on an xpub that carries the same chain code
\* and key material under another depth, fingerprint and child number, both
\* succeed or both fail, and return the same address strings and public keys
\* index by index.
C16_KpubAsXpub ==
    LET K == input.first.extendedKey
        X == input.second.extendedKey
    IN  (/\ TwoDone
         /\ K.type = "string" /\ detectKPUBFormat(K).val = "kaspium"
         /\ convertKaspiumKPUBToStandard(K).ok
         /\ X.type = "string" /\ detectKPUBFormat(X).val = "standard"
         /\ KeyMaterial(X.str) = KeyMaterial(K.str)
         /\ input.first.startIndex = input.second.startIndex
         /\ input.first.count = input.second.count) =>
            /\ ret[1].ok = ret[2].ok
            /\ ret[1].ok => AddressesOf(ret[1]) = AddressesOf(ret[2])

\* The kpub of the test script and the xpub with its chain code and key at
\* depth 2, fingerprint 01020304, child number 5: the same two addresses.
C16_Witness ==
    /\ TwoDone
    /\ input.first.extendedKey = JsString(KpubTest)
    /\ input.second.extendedKey = JsString(XpubTestMeta)
    /\ JsString(convertKaspiumKPUBToStandard(JsString(KpubTest)).val)
          \notin {input.first.extendedKey, input.second.extendedKey}
    /\ input.first.startIndex = 1 /\ input.second.startIndex = 1
    /\ input.first.count = 2 /\ input.second.count = 2
    /\ ret[1].ok /\ ret[2].ok
    /\ Len(ret[1].val.addresses) = 2
    /\ AddressesOf(ret[1]) = AddressesOf(ret[2])
    /\ ret[1].val.addresses[1].sourceFormat # ret[2].val.addresses[1].sourceFormat

-----------------------------------------------------------------------------
(* Specification SpecSteps: one call of generateAddressesFromAnyKPUB        *)
(* (index.js 320-378) statement by statement.  ret holds the local          *)
(* variables of the call, the promise's outcome (settled) and the list of   *)
(* the steps that ran, each with the index it worked on and whether it      *)
(* returned (ok) or threw.                                                  *)

StepKeys == {JsString(KpubTest), JsString(XpubTest), JsString(TpubTest),
             JsString(KpubBad04), JsString(XpubBad04), JsNull}

StepArgs == Args(StepKeys, {0, MaxInt32}, {1, MaxCount}, Mnemonics)

NoIndex == Num(-1)
StepLog(step, index, ok) == [step |-> step, index |-> index, ok |-> ok]

InitSteps ==
    /\ op = "generateSteps"
    /\ input \in StepArgs
    /\ pc = "classify"
    /\ ret = [log |-> <<>>, walletInfo |-> <<>>, workingXpub |-> <<>>,
              hdKey |-> <<>>, i |-> Num(0), addressKey |-> <<>>,
              addresses |-> <<>>, settled |-> Null]

\* const walletInfo = detectWalletType(extendedKey, mnemonic); let workingXpub = extendedKey
ClassifyStep ==
    /\ op = "generateSteps" /\ pc = "classify"
    /\ \E walletInfo \in {detectWalletType(input.extendedKey, input.mnemonic)} :
          /\ ret' = [ret EXCEPT
                       !.log = Append(@, StepLog("classify", NoIndex, walletInfo.ok)),
                       !.walletInfo = walletInfo.val,
                       !.workingXpub = IF walletInfo.ok THEN input.extendedKey.str
                                       ELSE <<>>,
                       !.settled = IF walletInfo.ok THEN Null ELSE walletInfo]
          /\ pc' = IF ~walletInfo.ok THEN "failed"
                   ELSE IF NeedsConversion(walletInfo.val) THEN "convert"
                   ELSE "parse"
    /\ UNCHANGED <<op, input>>

\* workingXpub = convertKaspiumKPUBToStandard(extendedKey)
ConvertKeyStep ==
    /\ op = "generateSteps" /\ pc = "convert"
    /\ \E workingXpub \in {convertKaspiumKPUBToStandard(input.extendedKey)} :
          /\ ret' = [ret EXCEPT
                       !.log = Append(@, StepLog("convert", NoIndex, workingXpub.ok)),
                       !.workingXpub = workingXpub.val,
                       !.settled = IF workingXpub.ok THEN Null ELSE workingXpub]
          /\ pc' = IF workingXpub.ok THEN "parse" ELSE "failed"
    /\ UNCHANGED <<op, input>>

\* const hdKey = HDKey.fromExtendedKey(workingXpub); let i = startIndex
ParseStep ==
    /\ op = "generateSteps" /\ pc = "parse"
    /\ \E hdKey \in {HDKeyFromExtendedKey(ret.workingXpub)} :
          /\ ret' = [ret EXCEPT
                       !.log = Append(@, StepLog("parse", NoIndex, hdKey.ok)),
                       !.hdKey = hdKey.val,
                       !.i = Num(input.startIndex),
                       !.settled = IF hdKey.ok THEN Null ELSE hdKey]
          /\ pc' = IF hdKey.ok THEN "loop" ELSE "failed"
    /\ UNCHANGED <<op, input>>

\* i < startIndex + count, and the return statement after the loop.
LoopTest ==
    /\ op = "generateSteps" /\ pc = "loop"
    /\ IF NumLess(ret.i, NumAdd(Num(input.startIndex), Num(input.count)))
       THEN pc' = "derive" /\ ret' = ret
       ELSE /\ pc' = "done"
            /\ ret' = [ret EXCEPT !.settled =
                          Return([addresses      |-> ret.addresses,
                                  walletInfo     |-> ret.walletInfo,
                                  totalGenerated |-> input.count])]
    /\ UNCHANGED <<op, input>>

\* const externalChain = hdKey.deriveChild(0); const addressKey = externalChain.deriveChild(i)
DeriveStep ==
    /\ op = "generateSteps" /\ pc = "derive"
    /\ \E externalChain \in {deriveChild(ret.hdKey, Num(0))} :
        \E addressKey \in {IF externalChain.ok
                           THEN deriveChild(externalChain.val, ret.i)
                           ELSE externalChain} :
          /\ ret' = [ret EXCEPT
                       !.log = Append(@, StepLog("derive", ret.i, addressKey.ok)),
                       !.addressKey = addressKey.val,
                       !.settled = IF addressKey.ok THEN Null ELSE addressKey]
          /\ pc' = IF addressKey.ok THEN "encode" ELSE "failed"
    /\ UNCHANGED <<op, input>>

\* const address = kaspaEncodePubKeyAddress(...); addresses.push({...}); i++
EncodeStep ==
    /\ op = "generateSteps" /\ pc = "encode"
    /\ \E address \in {kaspaEncodePubKeyAddress(ret.addressKey.publicKey,
                          IF ret.walletInfo.format = "testnet"
                          THEN <<"k","a","s","p","a","t","e","s","t">>
                          ELSE <<"k","a","s","p","a">>)} :
          /\ ret' = [ret EXCEPT
                       !.log = Append(@, StepLog("encode", ret.i, address.ok)),
                       !.addresses = IF ~address.ok THEN @ ELSE Append(@,
                            [index          |-> NumInt(ret.i),
                             address        |-> address.val,
                             publicKey      |-> ToHex(ret.addressKey.publicKey),
                             path           |-> <<"m/0/", NumInt(ret.i)>>,
                             walletType     |-> ret.walletInfo.wallet,
                             derivationPath |-> ret.walletInfo.derivationPath,
                             sourceFormat   |-> ret.walletInfo.format,
                             isWatchOnly    |-> TRUE]),
                       !.i = NumAdd(@, Num(1)),
                       !.settled = IF address.ok THEN Null
                                   ELSE Throw(<<"convertBits failed">>)]
          /\ pc' = IF address.ok THEN "loop" ELSE "failed"
    /\ UNCHANGED <<op, input>>

NextSteps ==
    ClassifyStep \/ ConvertKeyStep \/ ParseStep \/ LoopTest \/ DeriveStep \/ EncodeStep

SpecSteps == InitSteps /\ [][NextSteps]_vars

\* The steps settle the promise as the call does.
StepsAgree ==
    (op = "generateSteps" /\ pc \in {"done", "failed"}) =>
        ret.settled = generateAddressesFromAnyKPUB(input.extendedKey,
                         input.startIndex, input.count, input.mnemonic)

\* The positions of a step in the list of the steps that ran.
Ran(step) == {k \in 1..Len(ret.log) : ret.log[k].step = step}

\* C19: the classification of the key is the first step and runs once; the
\* conversion runs exactly when the key was classified 'kpub', which is when the
\* key starts with kpub, whatever the mnemonic, and before the key is parsed;
\* the encoding of an index directly follows the derivation of that index; and
\* a step that failed is the last step, so that nothing is derived or encoded
\* after a failed classification or conversion.
C19_StepOrder ==
    (op = "generateSteps" /\ pc # "classify") =>
        /\ Ran("classify") = {1}
        /\ pc # "convert" =>
              /\ (ret.log[1].ok /\ Ran("convert") # {})
                    <=> (ret.log[1].ok /\ ret.walletInfo.format = "kpub")
              /\ (Ran("convert") # {})
                    <=> (input.extendedKey.type = "string"
                           /\ StartsWith(input.extendedKey.str, <<"k","p","u","b">>))
        /\ Ran("convert") \subseteq {2}
        /\ \A k \in Ran("parse") : k = Len(ret.log) \/ ret.log[k + 1].step = "derive"
        /\ \A k \in Ran("parse") : k = 2 \/ (k = 3 /\ Ran("convert") = {2})
        /\ \A k \in Ran("encode") :
              /\ ret.log[k - 1].step = "derive"
              /\ ret.log[k - 1].index = ret.log[k].index
        /\ \A k \in Ran("derive") : \E p \in Ran("parse") : p < k
        /\ \A k \in 1..Len(ret.log) : ~ret.log[k].ok => k = Len(ret.log) /\ pc = "failed"

\* A kpub under a mnemonic of three words: classified, converted, parsed, and
\* two indices derived and encoded in turn.
C19_Witness ==
    /\ op = "generateSteps" /\ pc = "done"
    /\ input.extendedKey = JsString(KpubTest)
    /\ input.mnemonic = JsString(Words(3))
    /\ input.count = 2
    /\ [k \in 1..Len(ret.log) |-> ret.log[k].step]
          = <<"classify", "convert", "parse", "derive", "encode", "derive", "encode">>
    /\ ret.log[6].index = Num(1) /\ ret.log[7].index = Num(1)
    /\ ret.settled.ok

\* A key that fails in conversion: two steps ran and the call is rejected.
C19_FailedConversion ==
    /\ op = "generateSteps" /\ pc = "failed"
    /\ input.extendedKey = JsString(KpubBad04)
    /\ Len(ret.log) = 2 /\ ~ret.log[2].ok

=============================================================================
